---- MODULE Spec2Model ----
(***************************************************************************)
(* A model of the email-parser library: the address parser, the subject    *)
(* normalizer, the signature separator, the body builder, the entity       *)
(* extractor's e-mail scan and the parse_email pipeline.                   *)
(*                                                                         *)
(* A string is a sequence of characters; a character is a one-character    *)
(* TLA+ string, or "U+XXXX" for a character outside ASCII.  Offsets are    *)
(* counted from 0 as in the source, so s[a..b] is Slice(s, a, b).          *)
(***************************************************************************)
EXTENDS Integers, Sequences, FiniteSets, TLC

VARIABLES addr, subj, sig, body, ex, mail

vars == <<addr, subj, sig, body, ex, mail>>

(***************************************************************************)
(* Option values and the abort outcome of a slice or an addition.          *)
(***************************************************************************)
None == [tag |-> "None"]
Some(v) == [tag |-> "Some", val |-> v]
Panic == [tag |-> "Panic"]

\* The value of a component that is not running.
Idle == [pc |-> "idle"]

\* All strings over the alphabet A of at most n characters.
Strs(A, n) == UNION {[1..k -> A] : k \in 0..n}

(***************************************************************************)
(* The string primitives of the standard library the code calls.           *)
(***************************************************************************)
\* char::is_whitespace, on the characters the model uses.
IsWhitespace(c) == c \in {" ", "\n", "\t", "\r"}

\* &s[a..b] on a valid range (the callers check a <= b).
Slice(s, a, b) == SubSeq(s, a + 1, b)

\* &s[a..]
SliceFrom(s, a) == SubSeq(s, a + 1, Len(s))

RECURSIVE TrimStart(_)
\* str::trim_start
TrimStart(s) ==
    IF s # <<>> /\ IsWhitespace(Head(s)) THEN TrimStart(Tail(s)) ELSE s

RECURSIVE TrimEnd(_)
\* str::trim_end
TrimEnd(s) ==
    IF s # <<>> /\ IsWhitespace(s[Len(s)])
    THEN TrimEnd(SubSeq(s, 1, Len(s) - 1))
    ELSE s

\* str::trim
Trim(s) == TrimEnd(TrimStart(s))

RECURSIVE TrimStartMatches(_, _)
\* str::trim_start_matches with a set of characters
TrimStartMatches(s, cs) ==
    IF s # <<>> /\ Head(s) \in cs THEN TrimStartMatches(Tail(s), cs) ELSE s

RECURSIVE TrimEndMatches(_, _)
TrimEndMatches(s, cs) ==
    IF s # <<>> /\ s[Len(s)] \in cs
    THEN TrimEndMatches(SubSeq(s, 1, Len(s) - 1), cs)
    ELSE s

\* str::trim_matches(c): every leading and every trailing c is removed.
TrimMatches(s, c) == TrimEndMatches(TrimStartMatches(s, {c}), {c})

\* str::starts_with
StartsWith(s, p) == Len(p) <= Len(s) /\ SubSeq(s, 1, Len(p)) = p

\* The offsets at which p occurs in s.
Occurrences(s, p) ==
    {i \in 0..(Len(s) - Len(p)) : SubSeq(s, i + 1, i + Len(p)) = p}

\* str::contains
Contains(s, p) == Occurrences(s, p) # {}

\* str::find: the offset of the first occurrence, -1 standing for None.
Find(s, p) ==
    IF Occurrences(s, p) = {} THEN -1
    ELSE CHOOSE i \in Occurrences(s, p) : \A j \in Occurrences(s, p) : i <= j

\* The offset of the last occurrence, -1 when there is none.
FindLast(s, p) ==
    IF Occurrences(s, p) = {} THEN -1
    ELSE CHOOSE i \in Occurrences(s, p) : \A j \in Occurrences(s, p) : j <= i

\* Splitting at the last occurrence of c instead of the first.
SplitOnceLast(s, c) ==
    LET i == FindLast(s, <<c>>)
    IN  IF i < 0 THEN None
        ELSE Some([left |-> Slice(s, 0, i), right |-> SliceFrom(s, i + 1)])

\* str::split_once(c): the text before the first c and the text after it.
SplitOnce(s, c) ==
    LET i == Find(s, <<c>>)
    IN  IF i < 0 THEN None
        ELSE Some([left |-> Slice(s, 0, i), right |-> SliceFrom(s, i + 1)])

RECURSIVE Split(_, _)
\* str::split(c): the pieces between the occurrences of c, empty ones kept.
Split(s, c) ==
    LET i == Find(s, <<c>>)
    IN  IF i < 0 THEN <<s>>
        ELSE <<Slice(s, 0, i)>> \o Split(SliceFrom(s, i + 1), c)

RECURSIVE SplitWhitespace(_)
\* str::split_whitespace: the maximal runs of non-whitespace characters.
SplitWhitespace(s) ==
    LET t == TrimStart(s)
        ws == {i \in 1..Len(t) : IsWhitespace(t[i])}
        e == IF ws = {} THEN Len(t) + 1
             ELSE CHOOSE i \in ws : \A j \in ws : i <= j
    IN  IF t = <<>> THEN <<>>
        ELSE <<SubSeq(t, 1, e - 1)>> \o SplitWhitespace(SubSeq(t, e, Len(t)))

(***************************************************************************)
(* types.rs: PersonName and EmailAddress.                                  *)
(***************************************************************************)
\* PersonName::parse
PersonNameParse(s0) ==
    LET s == TrimMatches(Trim(s0), "\"")
        parts == SplitWhitespace(s)
    IN  IF Len(parts) = 0
        THEN [full |-> <<>>, first |-> None, last |-> None]
        ELSE IF Len(parts) = 1
        THEN [full |-> parts[1], first |-> Some(parts[1]), last |-> None]
        ELSE [full |-> s, first |-> Some(parts[1]),
              last |-> Some(parts[Len(parts)])]

\* The bare form of EmailAddress::parse: the whole trimmed input is the address.
PlainAddress(s) ==
    LET sp == SplitOnce(s, "@")
    IN  IF sp.tag = "Some"
        THEN Some([name |-> None, local_part |-> sp.val.left,
                   domain |-> sp.val.right, address |-> s])
        ELSE None

\* The parse that gives up when the bracketed text holds no '@'.
EmailAddressParseStrict(s0) ==
    LET s == Trim(s0)
        start == Find(s, <<"<">>)
        end == Find(s, <<">">>)
    IN  IF start >= 0 /\ end >= 0
        THEN IF start + 1 > end THEN Panic
             ELSE LET name_part == TrimMatches(Trim(Slice(s, 0, start)), "\"")
                      address == Trim(Slice(s, start + 1, end))
                      sp == SplitOnce(address, "@")
                  IN  IF sp.tag = "Some"
                      THEN Some([name |-> IF name_part = <<>> THEN None
                                          ELSE Some(PersonNameParse(name_part)),
                                 local_part |-> sp.val.left,
                                 domain |-> sp.val.right,
                                 address |-> address])
                      ELSE None
        ELSE PlainAddress(s)

\* EmailAddress::parse.  The slice s[start + 1..end] aborts when start + 1 > end;
\* a bracketed text without '@' falls through to the bare form.
EmailAddressParse(s0) ==
    LET s == Trim(s0)
        start == Find(s, <<"<">>)
        end == Find(s, <<">">>)
    IN  IF start >= 0 /\ end >= 0
        THEN IF start + 1 > end THEN Panic
             ELSE LET name_part == TrimMatches(Trim(Slice(s, 0, start)), "\"")
                      address == Trim(Slice(s, start + 1, end))
                      sp == SplitOnce(address, "@")
                  IN  IF sp.tag = "Some"
                      THEN Some([name |-> IF name_part = <<>> THEN None
                                          ELSE Some(PersonNameParse(name_part)),
                                 local_part |-> sp.val.left,
                                 domain |-> sp.val.right,
                                 address |-> address])
                      ELSE PlainAddress(s)
        ELSE PlainAddress(s)

RECURSIVE FilterMapParse(_)
\* filter_map(|addr| EmailAddress::parse(addr.trim())).collect(): the first token
\* whose parse aborts aborts the whole collection.
FilterMapParse(tokens) ==
    IF tokens = <<>> THEN [tag |-> "Ok", list |-> <<>>]
    ELSE LET p == EmailAddressParse(Trim(Head(tokens)))
             rest == FilterMapParse(Tail(tokens))
         IN  IF p.tag = "Panic" \/ rest.tag = "Panic" THEN Panic
             ELSE IF p.tag = "Some"
             THEN [tag |-> "Ok", list |-> <<p.val>> \o rest.list]
             ELSE rest

\* parser.rs extract_addresses, on the value of the first header of the wanted
\* name (None when the message has no such header).
ExtractAddresses(header) ==
    IF header.tag = "None" THEN [tag |-> "Ok", list |-> <<>>]
    ELSE FilterMapParse(Split(header.val, ","))

(***************************************************************************)
(* The address component: an input string, then one of the two operations. *)
(***************************************************************************)
MaxAddrLen == 5

AddrAlphabet == {"a", "@", "<", ">", " ", "\"", ","}

\* Some(s): a header value; None: the header is missing.
AddrInputs == {None} \cup {Some(s) : s \in Strs(AddrAlphabet, MaxAddrLen)}

InitAddress ==
    /\ addr \in {[pc |-> "start", input |-> i, out |-> None] : i \in AddrInputs}
    /\ subj = Idle /\ sig = Idle /\ body = Idle /\ ex = Idle /\ mail = Idle

\* A call of EmailAddress::parse on a present value.
ParseAddress ==
    /\ addr.pc = "start"
    /\ addr.input.tag = "Some"
    /\ addr' = [addr EXCEPT !.pc = "parsed",
                            !.out = EmailAddressParse(addr.input.val)]
    /\ UNCHANGED <<subj, sig, body, ex, mail>>

\* A call of extract_addresses on the To, Cc or Bcc header.
ExtractAddressList ==
    /\ addr.pc = "start"
    /\ addr' = [addr EXCEPT !.pc = "extracted",
                            !.out = ExtractAddresses(addr.input)]
    /\ UNCHANGED <<subj, sig, body, ex, mail>>

NextAddress == ParseAddress \/ ExtractAddressList

SpecAddress == InitAddress /\ [][NextAddress]_vars

(***************************************************************************)
(* Claims about the address component.                                     *)
(***************************************************************************)
\* C1: every address EmailAddress::parse returns satisfies
\* address = local_part + "@" + domain, local_part being the text before the
\* first '@' of address (so it holds no '@') and domain all the text after it.
C1_AddressIsLocalAtDomain ==
    (addr.pc = "parsed" /\ addr.out.tag = "Some") =>
        /\ addr.out.val.address =
               addr.out.val.local_part \o <<"@">> \o addr.out.val.domain
        /\ ~Contains(addr.out.val.local_part, <<"@">>)

\* C1 witness: a `Name <addr>` input parsed to an address with a second '@',
\* which the split leaves in the domain.
C1_Witness ==
    /\ addr.pc = "parsed"
    /\ addr.out.tag = "Some"
    /\ addr.out.val.name.tag = "Some"
    /\ Contains(addr.out.val.domain, <<"@">>)

\* The address text of the C2 statement: the text between the first '<' and the
\* first '>' when the input holds both, the whole trimmed input otherwise.
AddressText(s0) ==
    LET s == Trim(s0)
        start == Find(s, <<"<">>)
        end == Find(s, <<">">>)
    IN  IF start >= 0 /\ end >= 0 THEN Slice(s, start + 1, end) ELSE s

BracketedWithoutAt(s0) ==
    LET s == Trim(s0)
        start == Find(s, <<"<">>)
        end == Find(s, <<">">>)
    IN  /\ start >= 0
        /\ end > start
        /\ ~Contains(Slice(s, start + 1, end), <<"@">>)

RECURSIVE AcceptedAddresses(_)
\* The addresses of the tokens EmailAddress::parse accepts, in token order.
AcceptedAddresses(tokens) ==
    IF tokens = <<>> THEN <<>>
    ELSE LET p == EmailAddressParse(Trim(Head(tokens)))
         IN  (IF p.tag = "Some" THEN <<p.val>> ELSE <<>>)
                 \o AcceptedAddresses(Tail(tokens))

\* C3 as stated: extract_addresses never aborts; it returns the addresses of the
\* comma-separated tokens the parse accepts, in order, and the empty list for a
\* missing header.
C3_AddressListNeverAborts ==
    addr.pc = "extracted" =>
        /\ addr.out.tag = "Ok"
        /\ addr.out.list =
               IF addr.input.tag = "None" THEN <<>>
               ELSE AcceptedAddresses(Split(addr.input.val, ","))

(***************************************************************************)
(* 32-bit unsigned arithmetic.  A u32 is the pair <<hi, lo>> of its two     *)
(* 16-bit halves, so that sums up to 2^32 stay exact in the model.          *)
(***************************************************************************)
Limb == 65536

\* The u32 of a small natural number.
U32(n) == <<n \div Limb, n % Limb>>

\* The exact sum of two pairs: the high half is left unreduced.
WideAdd(a, b) ==
    LET lo == a[2] + b[2]
    IN  <<a[1] + b[1] + (lo \div Limb), lo % Limb>>

\* u32 `+=`: the sum modulo 2^32, and whether it overflowed.
U32Add(a, b) ==
    LET w == WideAdd(a, b)
    IN  [overflow |-> w[1] >= Limb, val |-> <<w[1] % Limb, w[2]>>]

Digits == <<"0", "1", "2", "3", "4", "5", "6", "7", "8", "9">>

IsDigit(c) == \E d \in 1..10 : Digits[d] = c

DigitValue(c) == (CHOOSE d \in 1..10 : Digits[d] = c) - 1

RECURSIVE ParseDigits(_, _)
\* The digit loop of u32::from_str: checked multiply by ten and add.  The next
\* round is given the remaining digits and the accumulator as values.
ParseDigits(s, acc) ==
    IF s = <<>> THEN Some(acc)
    ELSE IF ~IsDigit(Head(s)) THEN None
    ELSE LET t == acc[2] * 10 + DigitValue(Head(s))
             hi == acc[1] * 10 + (t \div Limb)
         IN  IF hi >= Limb THEN None
             ELSE CHOOSE r \in {ParseDigits(rest, next) :
                                  rest \in {Tail(s)}, next \in {<<hi, t % Limb>>}} : TRUE

\* str::parse::<u32>: an optional '+', then one or more digits, the value at
\* most 2^32 - 1; anything else is an error (None).
ParseU32(s) ==
    LET d == IF s # <<>> /\ Head(s) = "+" THEN Tail(s) ELSE s
    IN  IF d = <<>> THEN None ELSE ParseDigits(d, <<0, 0>>)

(***************************************************************************)
(* types.rs: Subject::parse, one action per loop iteration.                *)
(***************************************************************************)
UpperLetters == <<"A", "B", "C", "D", "E", "F", "G", "H", "I", "J", "K", "L", "M",
                  "N", "O", "P", "Q", "R", "S", "T", "U", "V", "W", "X", "Y", "Z">>

LowerLetters == <<"a", "b", "c", "d", "e", "f", "g", "h", "i", "j", "k", "l", "m",
                  "n", "o", "p", "q", "r", "s", "t", "u", "v", "w", "x", "y", "z">>

\* char::to_lowercase on the characters the model uses.
LowerChar(c) ==
    IF \E k \in 1..26 : UpperLetters[k] = c
    THEN LowerLetters[CHOOSE k \in 1..26 : UpperLetters[k] = c]
    ELSE c

RECURSIVE LowerExpand(_)
\* The lower-case characters of s one after the other; U+0130 (capital I with
\* dot above) lowers to two characters, 'i' and U+0307.
LowerExpand(s) ==
    IF s = <<>> THEN <<>>
    ELSE (IF Head(s) = "U+0130" THEN <<"i", "U+0307">> ELSE <<LowerChar(Head(s))>>)
            \o LowerExpand(Tail(s))

\* str::to_lowercase
ToLower(s) ==
    IF \A i \in 1..Len(s) : s[i] # "U+0130"
    THEN [i \in 1..Len(s) |-> LowerChar(s[i])]
    ELSE LowerExpand(s)

\* A forward test that knows the long form only.
IsForwardLongOnly(normalized) ==
    StartsWith(ToLower(normalized), <<"f", "w", "d", ":">>)

\* The forward test of Subject::parse.
IsForward(normalized) ==
    \/ StartsWith(ToLower(normalized), <<"f", "w", "d", ":">>)
    \/ StartsWith(ToLower(normalized), <<"f", "w", ":">>)

\* The characters trim_start_matches removes after a forward prefix was seen.
ForwardStripChars == {"F", "f", "w", "W", "d", "D", ":"}

\* normalized after the forward branch.
ForwardStrip(normalized) ==
    TrimStart(TrimStartMatches(normalized, ForwardStripChars))

MaxSubjPieces == 3

\* The pieces subjects are built of.
SubjPieces ==
    { <<"R", "e", ":", " ">>,
      <<"r", "E", "[", "3", "]", ":">>,
      <<"R", "e", "[", "4", "2", "9", "4", "9", "6", "7", "2", "9", "5", "]", ":">>,
      <<"r", "e", "[", "x", "]", ":">>,
      <<"r", "e", "[">>,
      <<"F", "w", "d", ":", " ">>,
      <<"f", "W", ":">>,
      <<" ">>,
      <<"X">> }

RECURSIVE Concat(_)
Concat(ps) == IF ps = <<>> THEN <<>> ELSE Head(ps) \o Concat(Tail(ps))

SubjInputs == {Concat(ps) : ps \in Strs(SubjPieces, MaxSubjPieces)}

\* Entry of Subject::parse(s).  overflow_checks is the build profile: with it
\* an overflowing `+=` aborts, without it the sum wraps.
InitSubject ==
    /\ subj \in {[pc |-> "loop", input |-> s, normalized |-> s,
                  reply_depth |-> U32(0), is_forward |-> FALSE,
                  overflow_checks |-> oc] :
                    s \in SubjInputs, oc \in BOOLEAN}
    /\ addr = Idle /\ sig = Idle /\ body = Idle /\ ex = Idle /\ mail = Idle

\* reply_depth += count, then the rest of the iteration.
AddDepth(count, rest) ==
    LET sum == U32Add(subj.reply_depth, count)
    IN  IF sum.overflow /\ subj.overflow_checks
        THEN subj' = [subj EXCEPT !.pc = "panic"]
        ELSE subj' = [subj EXCEPT !.reply_depth = sum.val, !.normalized = rest]

\* An iteration that sees "re:".
ReplyPlain ==
    /\ subj.pc = "loop"
    /\ StartsWith(ToLower(subj.normalized), <<"r", "e", ":">>)
    /\ LET rest == TrimStart(SliceFrom(subj.normalized, 3))
           sum == U32Add(subj.reply_depth, U32(1))
       IN  IF sum.overflow /\ subj.overflow_checks
           THEN subj' = [subj EXCEPT !.normalized = rest, !.pc = "panic"]
           ELSE subj' = [subj EXCEPT !.normalized = rest, !.reply_depth = sum.val]
    /\ UNCHANGED <<addr, sig, body, ex, mail>>

\* An iteration that sees "re[" and finds a "]:".
ReplyCounted ==
    /\ subj.pc = "loop"
    /\ ~StartsWith(ToLower(subj.normalized), <<"r", "e", ":">>)
    /\ StartsWith(ToLower(subj.normalized), <<"r", "e", "[">>)
    /\ Find(subj.normalized, <<"]", ":">>) >= 0
    /\ LET end == Find(subj.normalized, <<"]", ":">>)
           count == ParseU32(Slice(subj.normalized, 3, end))
           rest == TrimStart(SliceFrom(subj.normalized, end + 2))
       IN  IF count.tag = "Some"
           THEN AddDepth(count.val, rest)
           ELSE subj' = [subj EXCEPT !.normalized = rest]
    /\ UNCHANGED <<addr, sig, body, ex, mail>>

\* The iteration that breaks out of the loop.
ReplyLoopExit ==
    /\ subj.pc = "loop"
    /\ ~StartsWith(ToLower(subj.normalized), <<"r", "e", ":">>)
    /\ \/ ~StartsWith(ToLower(subj.normalized), <<"r", "e", "[">>)
       \/ Find(subj.normalized, <<"]", ":">>) < 0
    /\ subj' = [subj EXCEPT !.pc = "forward"]
    /\ UNCHANGED <<addr, sig, body, ex, mail>>

\* The forward check after the loop, and the construction of the Subject.
ForwardCheck ==
    /\ subj.pc = "forward"
    /\ subj' = IF IsForward(subj.normalized)
               THEN [subj EXCEPT !.pc = "done", !.is_forward = TRUE,
                                 !.normalized = ForwardStrip(subj.normalized)]
               ELSE [subj EXCEPT !.pc = "done"]
    /\ UNCHANGED <<addr, sig, body, ex, mail>>

NextSubject == ReplyPlain \/ ReplyCounted \/ ReplyLoopExit \/ ForwardCheck

SpecSubject == InitSubject /\ [][NextSubject]_vars

(***************************************************************************)
(* Claims about Subject::parse.                                            *)
(***************************************************************************)
RECURSIVE WideDigits(_, _)
\* The exact value of a digit string, as a pair with an unreduced high half.
WideDigits(s, acc) ==
    IF s = <<>> THEN acc
    ELSE LET t == acc[2] * 10 + DigitValue(Head(s))
         IN  WideDigits(Tail(s), <<acc[1] * 10 + (t \div Limb), t % Limb>>)

\* s starts with `re[N]:`, N one or more digits, in any letter case.
IsCountedPrefix(s) ==
    /\ StartsWith(ToLower(s), <<"r", "e", "[">>)
    /\ Find(s, <<"]", ":">>) > 3
    /\ \A i \in 4..Find(s, <<"]", ":">>) : IsDigit(s[i])

RECURSIVE ClaimedSubject(_)
\* The reading of a subject the C5 statement gives: the exact sum of the
\* leading reply prefixes and the remainder after them.
ClaimedSubject(s) ==
    IF StartsWith(ToLower(s), <<"r", "e", ":">>)
    THEN LET r == ClaimedSubject(TrimStart(SliceFrom(s, 3)))
         IN  [depth |-> WideAdd(r.depth, <<0, 1>>), rest |-> r.rest]
    ELSE IF IsCountedPrefix(s)
    THEN LET e == Find(s, <<"]", ":">>)
             r == ClaimedSubject(TrimStart(SliceFrom(s, e + 2)))
         IN  [depth |-> WideAdd(r.depth, WideDigits(Slice(s, 3, e), <<0, 0>>)),
              rest |-> r.rest]
    ELSE [depth |-> <<0, 0>>, rest |-> s]

\* C5 as stated, on the subjects whose remainder starts with no forward prefix
\* and not even with `re[`: the parse ends with reply_depth = 1 per `re:` plus N
\* per `re[N]:`, and normalized = the remainder.
C5_DepthIsSumOfPrefixes ==
    LET c == ClaimedSubject(subj.input)
    IN  (/\ subj.pc \in {"done", "panic"}
         /\ ~IsForward(c.rest)
         /\ ~StartsWith(ToLower(c.rest), <<"r", "e", "[">>)) =>
            /\ subj.pc = "done"
            /\ subj.reply_depth = c.depth
            /\ subj.normalized = c.rest

\* s starts with `fwd:` or `fw:` in any letter case, written out per character.
HasForwardPrefix(s) ==
    /\ Len(s) >= 3
    /\ s[1] \in {"f", "F"}
    /\ s[2] \in {"w", "W"}
    /\ \/ s[3] = ":"
       \/ Len(s) >= 4 /\ s[3] \in {"d", "D"} /\ s[4] = ":"

\* What the forward step removed from the front of the working string.
RemovedByForward(before, after) == SubSeq(before, 1, Len(before) - Len(after))

DelimitersTripleFirst ==
    << <<"-", "-", "-", "\n">>, <<"-", "-", "\n">>, <<"-", "-", " ", "\n">>, <<"B", "e", "s", "t", " ", "r", "e", "g", "a", "r", "d", "s">>, <<"K", "i", "n", "d", " ", "r", "e", "g", "a", "r", "d", "s">>, <<"R", "e", "g", "a", "r", "d", "s", ",">> >>

\* The delimiter list, in the order of the source.
Delimiters ==
    << <<"-", "-", "\n">>,
       <<"-", "-", " ", "\n">>,
       <<"-", "-", "-", "\n">>,
       <<"B", "e", "s", "t", " ", "r", "e", "g", "a", "r", "d", "s">>,
       <<"K", "i", "n", "d", " ", "r", "e", "g", "a", "r", "d", "s">>,
       <<"R", "e", "g", "a", "r", "d", "s", ",">> >>

\* The split taken at the delimiter that occurs first in the text, whatever its
\* place in the list.
SeparateSignatureByPosition(text) ==
    LET found == {k \in 1..Len(Delimiters) : Contains(text, Delimiters[k])}
        pos == CHOOSE i \in {Find(text, Delimiters[k]) : k \in found} :
                   \A k \in found : i <= Find(text, Delimiters[k])
    IN  IF found = {}
        THEN [content_without_signature |-> text, signature |-> None]
        ELSE [content_without_signature |-> Trim(Slice(text, 0, pos)),
              signature |-> Some(Trim(SliceFrom(text, pos)))]

RECURSIVE SeparateFrom(_, _)
\* The `for delimiter in delimiters` loop from the k-th delimiter on.
SeparateFrom(text, k) ==
    IF k > Len(Delimiters)
    THEN [content_without_signature |-> text, signature |-> None]
    ELSE LET pos == Find(text, Delimiters[k])
             content == Trim(Slice(text, 0, pos))
             signature == Trim(SliceFrom(text, pos))
         IN  IF pos >= 0 /\ signature # <<>>
             THEN [content_without_signature |-> content,
                   signature |-> Some(signature)]
             ELSE SeparateFrom(text, k + 1)

\* separate_signature
SeparateSignature(text) == SeparateFrom(text, 1)

MaxSigPieces == 4

\* The pieces body texts are built of.
SigPieces ==
    { <<"-">>, <<"\n">>, <<" ">>, <<"a">>,
      <<"-", "-", "\n">>,
      <<"B", "e", "s", "t", " ", "r", "e", "g", "a", "r", "d", "s">>,
      <<"K", "i", "n", "d", " ", "r", "e", "g", "a", "r", "d", "s">>,
      <<"R", "e", "g", "a", "r", "d", "s", ",">> }

SigInputs == {Concat(ps) : ps \in Strs(SigPieces, MaxSigPieces)}

InitSignature ==
    /\ sig \in {[pc |-> "start", text |-> t, out |-> None] : t \in SigInputs}
    /\ addr = Idle /\ subj = Idle /\ body = Idle /\ ex = Idle /\ mail = Idle

\* A call of separate_signature(text).
Separate ==
    /\ sig.pc = "start"
    /\ sig' = [sig EXCEPT !.pc = "done", !.out = SeparateSignature(sig.text)]
    /\ UNCHANGED <<addr, subj, body, ex, mail>>

NextSignature == Separate

SpecSignature == InitSignature /\ [][NextSignature]_vars

(***************************************************************************)
(* Claims about separate_signature.                                        *)
(***************************************************************************)
\* The delimiters that occur in the text, by their place in the list.
Occurring(text) == {k \in 1..Len(Delimiters) : Contains(text, Delimiters[k])}

\* The highest-priority delimiter that occurs in the text.
Chosen(text) == CHOOSE k \in Occurring(text) : \A j \in Occurring(text) : k <= j

\* The split C7 describes, but for its remark on how the signature starts.
SplitAtChosenDelimiter ==
    sig.pc = "done" =>
        IF Occurring(sig.text) = {}
        THEN /\ sig.out.content_without_signature = sig.text
             /\ sig.out.signature = None
        ELSE LET pos == Find(sig.text, Delimiters[Chosen(sig.text)])
             IN  /\ sig.out.content_without_signature =
                        Trim(Slice(sig.text, 0, pos))
                 /\ sig.out.signature = Some(Trim(SliceFrom(sig.text, pos)))

RECURSIVE Replace(_, _, _)
\* str::replace: every non-overlapping occurrence, left to right.
Replace(s, from, to) ==
    LET i == Find(s, from)
    IN  IF i < 0 THEN s
        ELSE Slice(s, 0, i) \o to \o Replace(SliceFrom(s, i + Len(from)), from, to)

\* One line of str::lines: a trailing carriage return is not part of it.
StripCr(l) == IF l # <<>> /\ l[Len(l)] = "\r" THEN SubSeq(l, 1, Len(l) - 1) ELSE l

\* str::lines: the text between newlines; a final newline opens no empty line.
Lines(s) ==
    LET raw == Split(s, "\n")
        kept == IF raw[Len(raw)] = <<>> THEN SubSeq(raw, 1, Len(raw) - 1) ELSE raw
    IN  [i \in 1..Len(kept) |-> StripCr(kept[i])]

RECURSIVE JoinLines(_)
\* join("\n")
JoinLines(ls) ==
    IF ls = <<>> THEN <<>>
    ELSE IF Len(ls) = 1 THEN ls[1]
    ELSE ls[1] \o <<"\n">> \o JoinLines(Tail(ls))

\* lines().map(str::trim).filter(|l| !l.is_empty())
TrimmedNonEmptyLines(s) ==
    LET ls == Lines(s)
        IsKept(l) == Trim(l) # <<>>
        kept == SelectSeq(ls, IsKept)
    IN  [i \in 1..Len(kept) |-> Trim(kept[i])]

\* The scanner state of strip_html before the first character.
StripInit ==
    [result |-> <<>>, in_tag |-> FALSE, in_script |-> FALSE, in_style |-> FALSE,
     tag_start_idx |-> 0]

\* The tags after which strip_html emits a newline.
IsBlockTag(tag_content) ==
    \/ StartsWith(tag_content, <<"b", "r">>)
    \/ StartsWith(tag_content, <<"/", "p">>)
    \/ StartsWith(tag_content, <<"/", "d", "i", "v">>)
    \/ StartsWith(tag_content, <<"/", "l", "i">>)
    \/ StartsWith(tag_content, <<"/", "h">>)

\* One iteration of the while loop of strip_html, at offset i.
StripStep(st, chars, lower_chars, i) ==
    IF ~st.in_tag /\ chars[i + 1] = "<"
    THEN LET remaining == SliceFrom(lower_chars, i)
         IN  [st EXCEPT
                !.tag_start_idx = i,
                !.in_script = IF StartsWith(remaining, <<"<", "s", "c", "r", "i", "p", "t">>) THEN TRUE
                              ELSE IF StartsWith(remaining, <<"<", "s", "t", "y", "l", "e">>) THEN @
                              ELSE IF StartsWith(remaining, <<"<", "/", "s", "c", "r", "i", "p", "t">>) THEN FALSE
                              ELSE @,
                !.in_style = IF StartsWith(remaining, <<"<", "s", "c", "r", "i", "p", "t">>) THEN @
                             ELSE IF StartsWith(remaining, <<"<", "s", "t", "y", "l", "e">>) THEN TRUE
                             ELSE IF StartsWith(remaining, <<"<", "/", "s", "c", "r", "i", "p", "t">>) THEN @
                             ELSE IF StartsWith(remaining, <<"<", "/", "s", "t", "y", "l", "e">>) THEN FALSE
                             ELSE @,
                !.in_tag = TRUE]
    ELSE IF st.in_tag /\ chars[i + 1] = ">"
    THEN LET tag_content == Slice(lower_chars, st.tag_start_idx + 1, i)
         IN  [st EXCEPT !.in_tag = FALSE,
                        !.result = IF IsBlockTag(tag_content)
                                   THEN Append(@, "\n") ELSE @]
    ELSE IF ~st.in_tag /\ ~st.in_script /\ ~st.in_style
    THEN [st EXCEPT !.result = Append(@, chars[i + 1])]
    ELSE st

RECURSIVE StripScan(_, _, _, _)
\* The while loop of strip_html from offset i on.
StripScan(st, chars, lower_chars, i) ==
    IF i >= Len(chars) THEN st
    ELSE StripScan(StripStep(st, chars, lower_chars, i), chars, lower_chars, i + 1)

\* The six replace calls of strip_html, applied one after the other.
DecodeEntities(result) ==
    Replace(Replace(Replace(Replace(Replace(Replace(result,
        <<"&", "n", "b", "s", "p", ";">>, <<" ">>),
        <<"&", "a", "m", "p", ";">>, <<"&">>),
        <<"&", "l", "t", ";">>, <<"<">>),
        <<"&", "g", "t", ";">>, <<">">>),
        <<"&", "q", "u", "o", "t", ";">>, <<"\"">>),
        <<"&", "#", "3", "9", ";">>, <<"'">>)

\* strip_html
StripHtml(html) ==
    JoinLines(TrimmedNonEmptyLines(
        DecodeEntities(StripScan(StripInit, html, ToLower(html), 0).result)))

RECURSIVE ExtractBodyRecursive(_, _)
\* extract_body_recursive over a list of subparts; acc is (text, html).
ExtractBodyRecursive(subparts, acc) ==
    IF subparts = <<>> THEN acc
    ELSE LET part == Head(subparts)
             content_type == ToLower(part.mimetype)
             next ==
               IF part.subparts = <<>>
               THEN IF part.body.tag # "Some" THEN acc
                    ELSE IF Contains(content_type, <<"t", "e", "x", "t", "/", "p", "l", "a", "i", "n">>) /\ acc.text = <<>>
                    THEN [acc EXCEPT !.text = part.body.val]
                    ELSE IF Contains(content_type, <<"t", "e", "x", "t", "/", "h", "t", "m", "l">>) /\ acc.html = None
                    THEN [acc EXCEPT !.html = Some(part.body.val)]
                    ELSE acc
               ELSE ExtractBodyRecursive(part.subparts, acc)
         IN  ExtractBodyRecursive(Tail(subparts), next)

\* extract_body_parts
ExtractBodyParts(parsed) ==
    IF parsed.subparts = <<>>
    THEN IF parsed.body.tag # "Some" THEN [text |-> <<>>, html |-> None]
         ELSE IF Contains(ToLower(parsed.mimetype), <<"t", "e", "x", "t", "/", "h", "t", "m", "l">>)
         THEN [text |-> <<>>, html |-> Some(parsed.body.val)]
         ELSE [text |-> parsed.body.val, html |-> None]
    ELSE ExtractBodyRecursive(parsed.subparts, [text |-> <<>>, html |-> None])

\* The Body that keeps the HTML-derived text even when a plain text exists.
ExtractBodyKeepingHtmlText(parsed) ==
    LET parts == ExtractBodyParts(parsed)
        text_from_html == IF parts.html.tag = "Some"
                          THEN Some(StripHtml(parts.html.val)) ELSE None
        best_text == IF text_from_html.tag = "Some" THEN text_from_html.val
                     ELSE parts.text
        split == SeparateSignature(best_text)
    IN  [text |-> parts.text, html |-> parts.html,
         text_from_html |-> text_from_html,
         word_count |-> Len(SplitWhitespace(best_text)),
         char_count |-> Len(best_text),
         line_count |-> Len(Lines(best_text)),
         signature |-> split.signature,
         content_without_signature |-> split.content_without_signature]

\* extract_body.  char_count is a byte count; the texts of the model are ASCII.
ExtractBody(parsed) ==
    LET parts == ExtractBodyParts(parsed)
        text_from_html == IF parts.text = <<>>
                          THEN IF parts.html.tag = "Some"
                               THEN Some(StripHtml(parts.html.val)) ELSE None
                          ELSE None
        best_text == IF parts.text # <<>> THEN parts.text
                     ELSE IF text_from_html.tag = "Some" THEN text_from_html.val
                     ELSE <<>>
        split == SeparateSignature(best_text)
    IN  [text |-> parts.text, html |-> parts.html,
         text_from_html |-> text_from_html,
         word_count |-> Len(SplitWhitespace(best_text)),
         char_count |-> Len(best_text),
         line_count |-> Len(Lines(best_text)),
         signature |-> split.signature,
         content_without_signature |-> split.content_without_signature]

\* A best_text that knows the plain text only.
BestTextPlainOnly(b) == b.text

\* Body::best_text
BestText(b) ==
    IF b.text # <<>> THEN b.text
    ELSE IF b.text_from_html.tag = "Some" THEN b.text_from_html.val
    ELSE <<>>

(***************************************************************************)
(* The body component: a decoded MIME tree, extract_body, then the text     *)
(* parse_email hands to ExtractedEntities::extract.                         *)
(***************************************************************************)
\* A part without subparts: its content type and its decoded body (None when
\* get_body fails).
Leaf(mimetype, b) == [mimetype |-> mimetype, body |-> b, subparts |-> <<>>]

\* A part with subparts.
Multipart(subparts) ==
    [mimetype |-> <<"m", "u", "l", "t", "i", "p", "a", "r", "t", "/", "m", "i", "x", "e", "d">>, body |-> Some(<<>>), subparts |-> subparts]

\* The leaves nested multiparts are built of.
InnerLeaves ==
    { Leaf(<<"t", "e", "x", "t", "/", "p", "l", "a", "i", "n">>, Some(<<>>)),
      Leaf(<<"t", "e", "x", "t", "/", "h", "t", "m", "l">>, Some(<<"<", "p", ">", "H", "i", "<", "/", "p", ">", "-", "-", " ", "<", "b", "r", ">", "J", "o">>)) }

\* The leaves messages are built of.
Leaves ==
    InnerLeaves \cup
    { Leaf(<<"t", "e", "x", "t", "/", "p", "l", "a", "i", "n">>, Some(<<"H", "i", ".", "\n", "\n", "-", "-", "\n", "J", "o">>)),
      Leaf(<<"t", "e", "x", "t", "/", "p", "l", "a", "i", "n">>, Some(<<"H", "i", "-", "-", "\n", "J", "o", "\n">>)),
      Leaf(<<"t", "e", "x", "t", "/", "p", "l", "a", "i", "n">>, None),
      Leaf(<<"T", "E", "X", "T", "/", "H", "T", "M", "L">>, Some(<<"<", "b", ">", "Y", "o", "<", "/", "b", ">", " ", "R", "e", "g", "a", "r", "d", "s", ",", " ", "A", "l">>)),
      Leaf(<<"i", "m", "a", "g", "e", "/", "p", "n", "g">>, Some(<<" ", "p", "n", "g">>)) }

MaxParts == 2

\* Sequences of 1..n elements of S.
Lists(S, n) == UNION {[1..k -> S] : k \in 1..n}

\* Messages of one text/plain part, over every text of the signature component.
PlainMessages == {Leaf(<<"t", "e", "x", "t", "/", "p", "l", "a", "i", "n">>, Some(t)) : t \in SigInputs}

MimeTrees ==
    LET inner == {Multipart(ps) : ps \in Lists(InnerLeaves, MaxParts)}
    IN  PlainMessages \cup Leaves
            \cup {Multipart(ps) : ps \in Lists(Leaves \cup inner, MaxParts)}

InitBody ==
    /\ body \in {[pc |-> "start", parsed |-> t, out |-> None,
                  extractor_input |-> None] : t \in MimeTrees}
    /\ addr = Idle /\ subj = Idle /\ sig = Idle /\ ex = Idle /\ mail = Idle

\* let body = extract_body(&parsed)
BuildBody ==
    /\ body.pc = "start"
    /\ body' = [body EXCEPT !.pc = "built", !.out = Some(ExtractBody(body.parsed))]
    /\ UNCHANGED <<addr, subj, sig, ex, mail>>

\* ExtractedEntities::extract(body.best_text())
PassBestText ==
    /\ body.pc = "built"
    /\ body' = [body EXCEPT !.pc = "extracted",
                            !.extractor_input = Some(BestText(body.out.val))]
    /\ UNCHANGED <<addr, subj, sig, ex, mail>>

NextBody == BuildBody \/ PassBestText

SpecBody == InitBody /\ [][NextBody]_vars

(***************************************************************************)
(* Claims about the Body.                                                  *)
(***************************************************************************)
\* The plain concatenation of content_without_signature and signature.
Rejoined(b) ==
    b.content_without_signature \o
        (IF b.signature.tag = "Some" THEN b.signature.val ELSE <<>>)

\* C8 as stated: content_without_signature followed by signature, trimmed, is
\* the trimmed text handed to the entity extractor.
C8_RoundTrip ==
    body.pc = "extracted" =>
        Trim(Rejoined(body.out.val)) = Trim(body.extractor_input.val)

\* The text of t between a prefix of length a and a suffix of length b.
Between(t, a, b) == SubSeq(t, a + 1, Len(t) - b)

\* C8 amended: the trimmed extractor text is content_without_signature, then a
\* run of whitespace (the one that stood before the delimiter, dropped by the
\* two trims), then signature; the plain concatenation equals it exactly when
\* that run is empty, and always when there is no signature.
C8_RoundTripUpToGap ==
    body.pc = "extracted" =>
        LET b == body.out.val
            t == Trim(body.extractor_input.val)
            c == b.content_without_signature
        IN  IF b.signature.tag = "None" THEN Trim(c) = t
            ELSE LET s == b.signature.val
                     gap == Between(t, Len(c), Len(s))
                 IN  /\ Len(c) + Len(s) <= Len(t)
                     /\ t = c \o gap \o s
                     /\ \A i \in 1..Len(gap) : IsWhitespace(gap[i])
                     /\ (Trim(Rejoined(b)) = t) <=> (gap = <<>>)

\* C8 witness: a Body with a signature whose content was separated from the
\* delimiter by whitespace, so that the plain concatenation differs.
C8_Witness ==
    /\ body.pc = "extracted"
    /\ body.out.val.signature.tag = "Some"
    /\ body.out.val.content_without_signature # <<>>
    /\ Trim(Rejoined(body.out.val)) # Trim(body.extractor_input.val)

(***************************************************************************)
(* extracted.rs: the e-mail scan of ExtractedEntities::extract.  The text   *)
(* is a sequence of characters of 1 to 4 bytes; offsets are byte offsets.   *)
(***************************************************************************)
\* char::len_utf8
Width(c) ==
    IF c \in {"U+00E9", "U+00A3", "U+00A5", "U+0663", "U+0130", "U+0307"} THEN 2
    ELSE IF c = "U+20AC" THEN 3
    ELSE IF c = "U+1F600" THEN 4
    ELSE 1

RECURSIVE ByteLen(_)
\* str::len
ByteLen(chars) ==
    IF chars = <<>> THEN 0 ELSE Width(Head(chars)) + ByteLen(Tail(chars))

RECURSIVE OffsetsFrom(_, _)
\* The byte offsets of the characters of a text that starts at offset at,
\* followed by the offset of its end.
OffsetsFrom(chars, at) ==
    IF chars = <<>> THEN <<at>>
    ELSE <<at>> \o OffsetsFrom(Tail(chars), at + Width(Head(chars)))

\* Offsets(chars)[k] is the byte offset of the k-th character, and
\* Offsets(chars)[Len + 1] the length of the text in bytes.
Offsets(chars) == OffsetsFrom(chars, 0)

\* The offsets that are character boundaries.
Boundaries(chars) == {Offsets(chars)[k] : k \in 1..(Len(chars) + 1)}

\* str::is_char_boundary
IsCharBoundary(chars, idx) == idx \in Boundaries(chars)

\* No snapping at all.
SnapNone(chars, idx) == IF idx >= ByteLen(chars) THEN ByteLen(chars) ELSE idx

\* Snapping to the next boundary instead of the previous one.
SnapForward(chars, idx) ==
    LET bs == Boundaries(chars)
    IN  IF idx >= ByteLen(chars) THEN ByteLen(chars)
        ELSE CHOOSE b \in bs : b >= idx /\ \A c \in bs : c >= idx => b <= c

RECURSIVE SnapLoop(_, _)
\* while !s.is_char_boundary(i) && i > 0 { i -= 1 }, bs the boundaries of s
SnapLoop(bs, i) ==
    IF i \notin bs /\ i > 0 THEN SnapLoop(bs, i - 1) ELSE i

\* snap_to_char_boundary
SnapToCharBoundary(chars, idx) ==
    IF idx >= ByteLen(chars) THEN ByteLen(chars)
    ELSE SnapLoop(Boundaries(chars), idx)

\* &text[a..b] by byte offsets: aborts unless a <= b <= len and both are
\* character boundaries.
ByteSlice(chars, a, b) ==
    LET offs == Offsets(chars)
        bs == {offs[k] : k \in 1..(Len(chars) + 1)}
    IN  IF a > b \/ b > offs[Len(chars) + 1] \/ a \notin bs \/ b \notin bs
        THEN Panic
        ELSE LET first == CHOOSE k \in 1..(Len(chars) + 1) : offs[k] = a
                 next == CHOOSE k \in 1..(Len(chars) + 1) : offs[k] = b
             IN  Some(SubSeq(chars, first, next - 1))

Letters ==
    {UpperLetters[k] : k \in 1..26} \cup {LowerLetters[k] : k \in 1..26}

IsLetter(c) == c \in Letters

\* [a-zA-Z0-9._%+-]
IsLocalChar(c) == IsLetter(c) \/ IsDigit(c) \/ c \in {".", "_", "%", "+", "-"}

\* [a-zA-Z0-9.-]
IsDomainChar(c) == IsLetter(c) \/ IsDigit(c) \/ c \in {".", "-"}

\* The three character classes of EMAIL_REGEX.
InClass(c, class) ==
    IF class = "local" THEN IsLocalChar(c)
    ELSE IF class = "domain" THEN IsDomainChar(c)
    ELSE IsLetter(c)

RECURSIVE RunEnd(_, _, _)
\* The last index of the maximal run of characters of a class that starts at
\* index i (i - 1 when the run is empty).
RunEnd(chars, i, class) ==
    IF i <= Len(chars) /\ InClass(chars[i], class)
    THEN RunEnd(chars, i + 1, class)
    ELSE i - 1

\* EMAIL_REGEX anchored at index i: the index of the last character of the
\* match, 0 when there is none.  The greedy domain run is cut back to the last
\* '.' that two or more letters follow.
EmailMatchAt(chars, i) ==
    LET j == RunEnd(chars, i, "local")
    IN  IF j < i \/ j + 1 > Len(chars) \/ chars[j + 1] # "@" THEN 0
        ELSE LET d == RunEnd(chars, j + 2, "domain")
                 ms == {m \in (j + 2)..(d - 1) :
                          /\ chars[m + 1] = "."
                          /\ RunEnd(chars, m + 2, "letter") >= m + 3}
             IN  IF ms = {} THEN 0
                 ELSE RunEnd(chars,
                             (CHOOSE m \in ms : \A n \in ms : n <= m) + 2,
                             "letter")

\* The next match of EMAIL_REGEX.find_iter at or after index from: the
\* leftmost start that matches, as [first, last], or None.
FindEmail(chars, from) ==
    LET starts == {i \in from..Len(chars) :
                      IsLocalChar(chars[i]) /\ EmailMatchAt(chars, i) > 0}
    IN  IF starts = {} THEN None
        ELSE LET i == CHOOSE i \in starts : \A k \in starts : i <= k
             IN  Some([first |-> i, last |-> EmailMatchAt(chars, i)])

\* The byte count on each side of a match that the context window asks for.
ContextWidth == 30

\* a.saturating_sub(b)
SaturatingSub(a, b) == IF a >= b THEN a - b ELSE 0

Min(a, b) == IF a <= b THEN a ELSE b

MaxExPieces == 4

\* The pieces extractor texts are built of: an address, a run of 27 spaces,
\* single characters of 1, 2, 3 and 4 bytes.
ExPieces ==
    { <<"a", "@", "a", ".", "a", "a">>,
      [i \in 1..27 |-> " "],
      <<"x">>, <<"U+00E9">>, <<"U+20AC">>, <<"U+1F600">> }

ExInputs == {Concat(ps) : ps \in Strs(ExPieces, MaxExPieces)}

\* Entry of ExtractedEntities::extract(text): no entity yet, the scan at the
\* first character.
InitExtract ==
    /\ ex \in {[pc |-> "emails", text |-> t, cursor |-> 1, emails |-> <<>>,
                cap |-> None, start |-> 0, end |-> 0] : t \in ExInputs}
    /\ addr = Idle /\ subj = Idle /\ sig = Idle /\ body = Idle /\ mail = Idle

\* One iteration of `for cap in EMAIL_REGEX.find_iter(text)`; cap, start and end
\* are the locals of the iteration.
EmailMatch ==
    /\ ex.pc = "emails"
    /\ FindEmail(ex.text, ex.cursor).tag = "Some"
    /\ LET m == FindEmail(ex.text, ex.cursor).val
           offs == Offsets(ex.text)
           cap_start == offs[m.first]
           cap_end == offs[m.last + 1]
           start == SnapToCharBoundary(ex.text,
                                       SaturatingSub(cap_start, ContextWidth))
           end == SnapToCharBoundary(ex.text,
                                     Min(cap_end + ContextWidth, ByteLen(ex.text)))
           context == ByteSlice(ex.text, start, end)
       IN  ex' = IF context.tag = "Panic"
                 THEN [ex EXCEPT !.pc = "panic",
                                 !.cap = Some([start |-> cap_start, end |-> cap_end]),
                                 !.start = start, !.end = end]
                 ELSE [ex EXCEPT
                         !.cursor = m.last + 1,
                         !.cap = Some([start |-> cap_start, end |-> cap_end]),
                         !.start = start, !.end = end,
                         !.emails = Append(@,
                            [address |-> SubSeq(ex.text, m.first, m.last),
                             context |-> context.val,
                             position |-> cap_start])]
    /\ UNCHANGED <<addr, subj, sig, body, mail>>

\* The e-mail scan finds no further match.
EmailScanEnd ==
    /\ ex.pc = "emails"
    /\ FindEmail(ex.text, ex.cursor).tag = "None"
    /\ ex' = [ex EXCEPT !.pc = "emails_done"]
    /\ UNCHANGED <<addr, subj, sig, body, mail>>

NextExtract == EmailMatch \/ EmailScanEnd

SpecExtract == InitExtract /\ [][NextExtract]_vars

(***************************************************************************)
(* Claims about the context window of an extracted address.                *)
(***************************************************************************)
\* The index the window start is snapped from.
RawStart == SaturatingSub(ex.cap.val.start, ContextWidth)

\* The index the window end is snapped from.
RawEnd == Min(ex.cap.val.end + ContextWidth, ByteLen(ex.text))

\* The last entry pushed to entities.emails.
LastEmail == ex.emails[Len(ex.emails)]

\* The number of characters of the text that start in the bytes a..b-1.
Scalars(a, b) ==
    LET offs == Offsets(ex.text)
    IN  Cardinality({k \in 1..Len(ex.text) : a <= offs[k] /\ offs[k] < b})

\* The largest character boundary at or before idx.
BoundaryAtOrBefore(idx) ==
    LET bs == Boundaries(ex.text)
    IN  CHOOSE b \in bs : b <= idx /\ \A c \in bs : c <= idx => c <= b

\* The smallest character boundary at or after idx.
BoundaryAtOrAfter(idx) ==
    LET bs == Boundaries(ex.text)
    IN  CHOOSE b \in bs : b >= idx /\ \A c \in bs : c >= idx => b <= c

\* C9: for every text and every email match in it, both bounds of the context
\* window are character boundaries with start <= match start and
\* match end <= end <= len, so the slice never aborts and the context is made
\* of whole characters only.
C9_WindowOnCharBoundaries ==
    /\ ex.pc # "panic"
    /\ (ex.pc # "idle" /\ ex.cap.tag = "Some") =>
          /\ IsCharBoundary(ex.text, ex.start)
          /\ IsCharBoundary(ex.text, ex.end)
          /\ ex.start <= ex.cap.val.start
          /\ ex.cap.val.end <= ex.end
          /\ ex.end <= ByteLen(ex.text)
          /\ ByteSlice(ex.text, ex.start, ex.end) = Some(LastEmail.context)
          /\ ByteLen(LastEmail.context) = ex.end - ex.start

\* A match whose window end was asked for inside a multi-byte character, the
\* context pushed all the same.
C9_Witness ==
    /\ ex.pc = "emails"
    /\ ex.cap.tag = "Some"
    /\ ~IsCharBoundary(ex.text, RawEnd)
    /\ ex.end < RawEnd
    /\ Len(ex.emails) > 0

RECURSIVE SubjectLoop(_, _, _)
\* The prefix loop of Subject::parse from the state (normalized, reply_depth)
\* on: what it leaves, or Panic when reply_depth overflows in a build with
\* overflow checks.
SubjectLoop(normalized, reply_depth, overflow_checks) ==
    LET lower == ToLower(normalized)
    IN  IF StartsWith(lower, <<"r", "e", ":">>)
        THEN LET sum == U32Add(reply_depth, U32(1))
             IN  IF sum.overflow /\ overflow_checks THEN Panic
                 ELSE SubjectLoop(TrimStart(SliceFrom(normalized, 3)),
                                  sum.val, overflow_checks)
        ELSE IF StartsWith(lower, <<"r", "e", "[">>) /\ Find(normalized, <<"]", ":">>) >= 0
        THEN LET end == Find(normalized, <<"]", ":">>)
                 count == ParseU32(Slice(normalized, 3, end))
                 rest == TrimStart(SliceFrom(normalized, end + 2))
                 sum == U32Add(reply_depth, count.val)
             IN  IF count.tag # "Some"
                 THEN SubjectLoop(rest, reply_depth, overflow_checks)
                 ELSE IF sum.overflow /\ overflow_checks THEN Panic
                 ELSE SubjectLoop(rest, sum.val, overflow_checks)
        ELSE [tag |-> "Ok", normalized |-> normalized,
              reply_depth |-> reply_depth]

\* Subject::parse
SubjectParse(s, overflow_checks) ==
    LET left == SubjectLoop(s, U32(0), overflow_checks)
    IN  IF left.tag = "Panic" THEN Panic
        ELSE Some([original |-> s,
                   normalized |-> IF IsForward(left.normalized)
                                  THEN ForwardStrip(left.normalized)
                                  ELSE left.normalized,
                   reply_depth |-> left.reply_depth,
                   is_forward |-> IsForward(left.normalized)])

\* u32 / 10 and u32 % 10, on limbs.
U32DivMod10(n) ==
    LET low == (n[1] % 10) * Limb + n[2]
    IN  [quot |-> <<n[1] \div 10, low \div 10>>, rem |-> low % 10]

RECURSIVE U32ToString(_)
\* The Display of a u32: its decimal digits, no sign, no leading zero.
U32ToString(n) ==
    LET d == U32DivMod10(n)
    IN  IF d.quot = U32(0) THEN <<Digits[d.rem + 1]>>
        ELSE Append(U32ToString(d.quot), Digits[d.rem + 1])

\* MessageId::synthetic
MessageIdSynthetic(uid) ==
    <<"<", "s", "y", "n", "t", "h", "e", "t", "i", "c", "-">> \o U32ToString(uid) \o <<"@", "l", "o", "c", "a", "l", ">">>

RECURSIVE FindHeader(_, _)
\* headers.iter().find(|h| h.get_key().to_lowercase() == name).map(get_value)
FindHeader(headers, name) ==
    IF headers = <<>> THEN None
    ELSE IF ToLower(Head(headers).key) = name THEN Some(Head(headers).value)
    ELSE FindHeader(Tail(headers), name)

\* extract_message_id
ExtractMessageId(headers, uid) ==
    LET h == FindHeader(headers, <<"m", "e", "s", "s", "a", "g", "e", "-", "i", "d">>)
    IN  IF h.tag = "None" THEN MessageIdSynthetic(uid) ELSE h.val

\* extract_from: Ok(address), Err(MissingHeader("From")),
\* Err(InvalidHeader { header: "From", .. }), or Panic.
ExtractFrom(headers) ==
    LET from_header == FindHeader(headers, <<"f", "r", "o", "m">>)
        parsed == IF from_header.tag = "None" THEN None
                  ELSE EmailAddressParse(from_header.val)
    IN  IF from_header.tag = "None"
        THEN [tag |-> "Err", kind |-> "MissingHeader", header |-> "From"]
        ELSE IF parsed.tag = "Panic" THEN Panic
        ELSE IF parsed.tag = "None"
        THEN [tag |-> "Err", kind |-> "InvalidHeader", header |-> "From"]
        ELSE [tag |-> "Ok", val |-> parsed.val]

\* extract_reply_to: Ok(Option<EmailAddress>), or Panic.
ExtractReplyTo(headers) ==
    LET h == FindHeader(headers, <<"r", "e", "p", "l", "y", "-", "t", "o">>)
        parsed == IF h.tag = "None" THEN None ELSE EmailAddressParse(h.val)
    IN  IF parsed.tag = "Panic" THEN Panic
        ELSE [tag |-> "Ok", val |-> parsed]

\* extract_subject
ExtractSubject(headers, overflow_checks) ==
    LET h == FindHeader(headers, <<"s", "u", "b", "j", "e", "c", "t">>)
    IN  SubjectParse(IF h.tag = "None" THEN <<"(", "n", "o", " ", "s", "u", "b", "j", "e", "c", "t", ")">> ELSE h.val,
                     overflow_checks)

\* The one Date value of the model that DateTime::parse_from_rfc2822 accepts.
Rfc2822Date == <<"M", "o", "n", ",", " ", "1", " ", "J", "a", "n", " ", "2", "0", "2", "4", " ", "0", "0", ":", "0", "0", ":", "0", "0", " ", "+", "0", "0", "0", "0">>

\* The instant Rfc2822Date denotes, in seconds since the epoch, over Limb.
Rfc2822Instant == <<26002, 128>>

\* The instants Utc::now() can return.
Clock == {<<26500, 0>>, <<26500, 1>>}

\* DateTime::parse_from_rfc2822(value).ok(), on the Date values of the model.
ParseFromRfc2822(value) ==
    IF value = Rfc2822Date THEN Some(Rfc2822Instant) ELSE None

\* extract_date, now the value Utc::now() returns when it is called.
ExtractDate(headers, now) ==
    LET h == FindHeader(headers, <<"d", "a", "t", "e">>)
        parsed == IF h.tag = "None" THEN None ELSE ParseFromRfc2822(h.val)
    IN  IF parsed.tag = "None" THEN now ELSE parsed.val

\* A field of the Email that parse_email has not computed yet.
Unset == [tag |-> "Unset"]

Header(key, value) == [key |-> key, value |-> value]

MaxHeaders == 2

\* The header lines messages are built of.
HeaderLines ==
    { Header(<<"F", "r", "o", "m">>, <<"a", "@", "b">>),
      Header(<<"F", "R", "O", "M">>, <<"N", " ", "<", "c", "@", "d", ">">>),
      Header(<<"f", "r", "o", "m">>, <<"x">>),
      Header(<<"F", "r", "o", "m">>, <<"a", ">", "b", "<", "c", "@", "d">>),
      Header(<<"T", "o">>, <<"a", "@", "b", ",", " ", "x">>),
      Header(<<"C", "c">>, <<">", "x", "<">>),
      Header(<<"B", "c", "c">>, <<"e", "@", "f">>),
      Header(<<"R", "e", "p", "l", "y", "-", "T", "o">>, <<"n", "o", "b", "o", "d", "y">>),
      Header(<<"S", "u", "b", "j", "e", "c", "t">>, <<"R", "e", "[", "4", "2", "9", "4", "9", "6", "7", "2", "9", "5", "]", ":", "R", "e", ":", " ", "X">>),
      Header(<<"S", "u", "b", "j", "e", "c", "t">>, <<"F", "w", "d", ":", " ", "H", "i">>),
      Header(<<"D", "a", "t", "e">>, <<"j", "u", "n", "k">>),
      Header(<<"D", "a", "t", "e">>, Rfc2822Date),
      Header(<<"M", "e", "s", "s", "a", "g", "e", "-", "I", "D">>, <<"<", "m", "@", "h", ">">>) }

\* The raw messages: bytes mailparse::parse_mail rejects, or a decodable
\* message of up to MaxHeaders header lines and a text/plain body.
RawMessages ==
    {[tag |-> "Malformed"]} \cup
    {[tag |-> "Mail", headers |-> hs,
      body |-> Leaf(<<"t", "e", "x", "t", "/", "p", "l", "a", "i", "n">>, Some(<<"H", "i">>))] :
        hs \in Strs(HeaderLines, MaxHeaders)}

\* The uids of the model.
Uids == {U32(0), <<65535, 65535>>}

\* Entry of parse_email(uid, raw).
InitEmail ==
    /\ mail \in {[pc |-> "parse_mail", uid |-> u, raw |-> r,
                  overflow_checks |-> oc, result |-> Unset,
                  headers |-> Unset, message_id |-> Unset, from |-> Unset,
                  to |-> Unset, cc |-> Unset, bcc |-> Unset,
                  reply_to |-> Unset, subject |-> Unset, date |-> Unset,
                  body |-> Unset] :
                    u \in Uids, r \in RawMessages, oc \in BOOLEAN}
    /\ addr = Idle /\ subj = Idle /\ sig = Idle /\ body = Idle /\ ex = Idle

\* mailparse::parse_mail(raw).map_err(ParseError::Structure)?
ParseMail ==
    /\ mail.pc = "parse_mail"
    /\ mail' = IF mail.raw.tag = "Malformed"
               THEN [mail EXCEPT !.pc = "returned",
                        !.result = [tag |-> "Err", kind |-> "Structure"]]
               ELSE [mail EXCEPT !.pc = "parse_headers"]
    /\ UNCHANGED <<addr, subj, sig, body, ex>>

\* parse_headers(&parsed.headers)?, which never fails: Headers.all.
ParseHeaders ==
    /\ mail.pc = "parse_headers"
    /\ mail' = [mail EXCEPT !.pc = "message_id",
                  !.headers = [i \in 1..Len(mail.raw.headers) |->
                                  Header(ToLower(mail.raw.headers[i].key),
                                         mail.raw.headers[i].value)]]
    /\ UNCHANGED <<addr, subj, sig, body, ex>>

\* let message_id = extract_message_id(&parsed.headers, uid)
MessageIdStep ==
    /\ mail.pc = "message_id"
    /\ mail' = [mail EXCEPT !.pc = "from",
                  !.message_id = ExtractMessageId(mail.raw.headers, mail.uid)]
    /\ UNCHANGED <<addr, subj, sig, body, ex>>

\* let from = extract_from(&parsed.headers)?
FromStep ==
    /\ mail.pc = "from"
    /\ LET r == ExtractFrom(mail.raw.headers)
       IN  mail' = IF r.tag = "Panic"
                   THEN [mail EXCEPT !.pc = "panic", !.result = Panic]
                   ELSE IF r.tag = "Err"
                   THEN [mail EXCEPT !.pc = "returned", !.result = r]
                   ELSE [mail EXCEPT !.pc = "to", !.from = r.val]
    /\ UNCHANGED <<addr, subj, sig, body, ex>>

\* let to = extract_addresses(&parsed.headers, "to")
ToStep ==
    /\ mail.pc = "to"
    /\ LET r == ExtractAddresses(FindHeader(mail.raw.headers, <<"t", "o">>))
       IN  mail' = IF r.tag = "Panic"
                   THEN [mail EXCEPT !.pc = "panic", !.result = Panic]
                   ELSE [mail EXCEPT !.pc = "cc", !.to = r.list]
    /\ UNCHANGED <<addr, subj, sig, body, ex>>

\* let cc = extract_addresses(&parsed.headers, "cc")
CcStep ==
    /\ mail.pc = "cc"
    /\ LET r == ExtractAddresses(FindHeader(mail.raw.headers, <<"c", "c">>))
       IN  mail' = IF r.tag = "Panic"
                   THEN [mail EXCEPT !.pc = "panic", !.result = Panic]
                   ELSE [mail EXCEPT !.pc = "bcc", !.cc = r.list]
    /\ UNCHANGED <<addr, subj, sig, body, ex>>

\* let bcc = extract_addresses(&parsed.headers, "bcc")
BccStep ==
    /\ mail.pc = "bcc"
    /\ LET r == ExtractAddresses(FindHeader(mail.raw.headers, <<"b", "c", "c">>))
       IN  mail' = IF r.tag = "Panic"
                   THEN [mail EXCEPT !.pc = "panic", !.result = Panic]
                   ELSE [mail EXCEPT !.pc = "reply_to", !.bcc = r.list]
    /\ UNCHANGED <<addr, subj, sig, body, ex>>

\* let reply_to = extract_reply_to(&parsed.headers)
ReplyToStep ==
    /\ mail.pc = "reply_to"
    /\ LET r == ExtractReplyTo(mail.raw.headers)
       IN  mail' = IF r.tag = "Panic"
                   THEN [mail EXCEPT !.pc = "panic", !.result = Panic]
                   ELSE [mail EXCEPT !.pc = "subject", !.reply_to = r.val]
    /\ UNCHANGED <<addr, subj, sig, body, ex>>

\* let subject = extract_subject(&parsed.headers)
SubjectStep ==
    /\ mail.pc = "subject"
    /\ LET r == ExtractSubject(mail.raw.headers, mail.overflow_checks)
       IN  mail' = IF r.tag = "Panic"
                   THEN [mail EXCEPT !.pc = "panic", !.result = Panic]
                   ELSE [mail EXCEPT !.pc = "date", !.subject = r.val]
    /\ UNCHANGED <<addr, subj, sig, body, ex>>

\* let date = extract_date(&parsed.headers)
DateStep ==
    /\ mail.pc = "date"
    /\ \E now \in Clock :
          mail' = [mail EXCEPT !.pc = "body",
                      !.date = ExtractDate(mail.raw.headers, now)]
    /\ UNCHANGED <<addr, subj, sig, body, ex>>

\* let body = extract_body(&parsed), and Ok(Email { .. }) of the fields
\* computed so far.
ReturnOk ==
    /\ mail.pc = "body"
    /\ LET b == ExtractBody(mail.raw.body)
       IN  mail' = [mail EXCEPT !.pc = "returned", !.body = b,
                      !.result = [tag |-> "Ok",
                                  email |-> [message_id |-> mail.message_id,
                                             uid |-> mail.uid,
                                             from |-> mail.from,
                                             to |-> mail.to,
                                             cc |-> mail.cc,
                                             bcc |-> mail.bcc,
                                             reply_to |-> mail.reply_to,
                                             subject |-> mail.subject,
                                             body |-> b,
                                             date |-> mail.date,
                                             headers |-> mail.headers]]]
    /\ UNCHANGED <<addr, subj, sig, body, ex>>

NextEmail ==
    \/ ParseMail \/ ParseHeaders \/ MessageIdStep \/ FromStep
    \/ ToStep \/ CcStep \/ BccStep \/ ReplyToStep \/ SubjectStep
    \/ DateStep \/ ReturnOk

SpecEmail == InitEmail /\ [][NextEmail]_vars

(***************************************************************************)
(* Claims about parse_email.                                               *)
(***************************************************************************)
\* The synthetic message id of each uid of the model, written out.
SyntheticIdOf(uid) ==
    IF uid = U32(0) THEN <<"<", "s", "y", "n", "t", "h", "e", "t", "i", "c", "-", "0", "@", "l", "o", "c", "a", "l", ">">>
    ELSE <<"<", "s", "y", "n", "t", "h", "e", "t", "i", "c", "-", "4", "2", "9", "4", "9", "6", "7", "2", "9", "5", "@", "l", "o", "c", "a", "l", ">">>

\* What C4 says parse_email returns for a raw message.
C4_Outcome ==
    LET hs == mail.raw.headers
        from_header == FindHeader(hs, <<"f", "r", "o", "m">>)
    IN  IF mail.raw.tag = "Malformed"
        THEN mail.result = [tag |-> "Err", kind |-> "Structure"]
        ELSE IF from_header.tag = "None"
        THEN mail.result = [tag |-> "Err", kind |-> "MissingHeader",
                            header |-> "From"]
        ELSE IF EmailAddressParse(from_header.val).tag = "None"
        THEN mail.result = [tag |-> "Err", kind |-> "InvalidHeader",
                            header |-> "From"]
        ELSE /\ mail.result.tag = "Ok"
             /\ FindHeader(hs, <<"s", "u", "b", "j", "e", "c", "t">>).tag = "None" =>
                   mail.result.email.subject.original = <<"(", "n", "o", " ", "s", "u", "b", "j", "e", "c", "t", ")">>
             /\ FindHeader(hs, <<"m", "e", "s", "s", "a", "g", "e", "-", "i", "d">>).tag = "None" =>
                   mail.result.email.message_id = SyntheticIdOf(mail.uid)

\* C4: parse_email returns Err in exactly three cases, checked in this order
\* (Structure, MissingHeader("From"), InvalidHeader for From), and Ok(Email)
\* in every other case, with "(no subject)" for a missing Subject and the
\* synthetic id for a missing Message-ID; no other header makes it fail.
C4_ErrInExactlyThreeCases ==
    /\ mail.pc # "panic"
    /\ mail.pc = "returned" => C4_Outcome

(***************************************************************************)
(* extracted.rs: the regular expressions of the other scans.  A pattern is *)
(* a sequence of nodes; Match follows the leftmost-first (backtracking)    *)
(* preference of the regex crate: a greedy repetition or option is tried   *)
(* first, the first alternative of an alternation is tried first.          *)
(***************************************************************************)
\* One character of the set cs.
One(cs) == [kind |-> "one", neg |-> FALSE, class |-> cs, sub |-> <<>>, alt |-> <<>>]

\* One character outside the set cs.
NotOne(cs) == [kind |-> "one", neg |-> TRUE, class |-> cs, sub |-> <<>>, alt |-> <<>>]

\* c*, greedy, c a One or NotOne node.
Star(c) == [c EXCEPT !.kind = "star"]

\* (?:sub)?, greedy.
Opt(sub) == [kind |-> "opt", neg |-> FALSE, class |-> {}, sub |-> sub, alt |-> <<>>]

\* (?:sub|alt)
Alt(sub, alt) == [kind |-> "alt", neg |-> FALSE, class |-> {}, sub |-> sub, alt |-> alt]

\* The literal string s, kept in sub.
Lit(s) == <<[kind |-> "lit", neg |-> FALSE, class |-> {}, sub |-> s, alt |-> <<>>]>>

\* Whether the character c is in the class of node n.
InNodeClass(c, n) == (c \in n.class) # n.neg

RECURSIVE Match(_, _, _)
\* The index after the preferred match of the pattern items at index i of
\* chars, or 0 when the pattern does not match there.
Match(items, chars, i) ==
    IF items = <<>> THEN i
    ELSE LET n == Head(items)
             rest == Tail(items)
         IN  IF n.kind = "one"
             THEN IF i <= Len(chars) /\ InNodeClass(chars[i], n)
                  THEN Match(rest, chars, i + 1) ELSE 0
             ELSE IF n.kind = "lit"
             THEN IF /\ i + Len(n.sub) - 1 <= Len(chars)
                     /\ SubSeq(chars, i, i + Len(n.sub) - 1) = n.sub
                  THEN Match(rest, chars, i + Len(n.sub)) ELSE 0
             ELSE IF n.kind = "star"
             THEN LET stops == {j \in i..Len(chars) : ~InNodeClass(chars[j], n)}
                      run == IF stops = {} THEN Len(chars) + 1
                             ELSE CHOOSE j \in stops : \A k \in stops : j <= k
                      ends == {k \in i..run : Match(rest, chars, k) > 0}
                  IN  IF ends = {} THEN 0
                      ELSE Match(rest, chars,
                                 CHOOSE k \in ends : \A j \in ends : j <= k)
             ELSE LET first == Match(n.sub \o rest, chars, i)
                  IN  IF first > 0 THEN first
                      ELSE IF n.kind = "opt" THEN Match(rest, chars, i)
                      ELSE Match(n.alt \o rest, chars, i)

\* The next match of re.find_iter at or after index from: the leftmost start
\* that matches, as [first, last], or None.
FindRegex(re, chars, from) ==
    LET starts == {i \in from..Len(chars) : Match(re, chars, i) > 0}
    IN  IF starts = {} THEN None
        ELSE LET i == CHOOSE k \in starts : \A j \in starts : k <= j
                 end == Match(re, chars, i)
             IN  Some([first |-> i, last |-> end - 1])

\* \s of the regex crate, on the characters of the model.
RegexSpace == {" ", "\t", "\n", "\r"}

\* \d of the regex crate: Unicode Nd, the ASCII digits and others
\* (U+0663 is ARABIC-INDIC DIGIT THREE).
RegexDigit == {Digits[d] : d \in 1..10} \cup {"U+0663"}

\* URL_REGEX: https?://[^\s<>\[\]{}|\\^]+
UrlRegex ==
    LET ch == NotOne(RegexSpace \cup {"<", ">", "[", "]", "{", "}", "|", "\\", "^"})
    IN  Lit(<<"h", "t", "t", "p">>) \o <<Opt(Lit(<<"s">>))>> \o Lit(<<":", "/", "/">>) \o <<ch, Star(ch)>>

\* str::ends_with
EndsWith(s, p) ==
    Len(p) <= Len(s) /\ SubSeq(s, Len(s) - Len(p) + 1, Len(s)) = p

RECURSIVE TrimStartMatchesStr(_, _)
\* str::trim_start_matches with a string pattern: the prefix is removed as
\* often as it stands at the start.
TrimStartMatchesStr(s, p) ==
    IF StartsWith(s, p) THEN TrimStartMatchesStr(SliceFrom(s, Len(p)), p) ELSE s

\* extract_domain
ExtractDomain(url) ==
    Split(TrimStartMatchesStr(TrimStartMatchesStr(url, <<"h", "t", "t", "p", "s", ":", "/", "/">>),
                              <<"h", "t", "t", "p", ":", "/", "/">>), "/")[1]

\* is_tracking_url
IsTrackingUrl(url) ==
    LET lower == ToLower(url)
    IN  \/ Contains(lower, <<"t", "r", "a", "c", "k">>)
        \/ Contains(lower, <<"c", "l", "i", "c", "k">>)
        \/ Contains(lower, <<"r", "e", "d", "i", "r", "e", "c", "t">>)
        \/ Contains(lower, <<"u", "t", "m", "_">>)
        \/ Contains(lower, <<"m", "c", "_", "e", "i", "d">>)
        \/ Contains(lower, <<"t", "r", "k">>)

\* detect_url_type with the tracking test made before the unsubscribe test.
DetectUrlTypeTrackingFirst(url, domain) ==
    LET lower == ToLower(url)
    IN  IF IsTrackingUrl(url) THEN "Tracking"
        ELSE IF Contains(lower, <<"u", "n", "s", "u", "b", "s", "c", "r", "i", "b", "e">>) \/ Contains(lower, <<"o", "p", "t", "o", "u", "t">>)
        THEN "Unsubscribe"
        ELSE "Website"

\* detect_url_type
DetectUrlType(url, domain) ==
    LET lower == ToLower(url)
        domain_lower == ToLower(domain)
    IN  IF Contains(lower, <<"u", "n", "s", "u", "b", "s", "c", "r", "i", "b", "e">>) \/ Contains(lower, <<"o", "p", "t", "o", "u", "t">>)
        THEN "Unsubscribe"
        ELSE IF IsTrackingUrl(url) THEN "Tracking"
        ELSE IF \/ Contains(domain_lower, <<"l", "i", "n", "k", "e", "d", "i", "n">>)
                \/ Contains(domain_lower, <<"t", "w", "i", "t", "t", "e", "r">>)
                \/ Contains(domain_lower, <<"f", "a", "c", "e", "b", "o", "o", "k">>)
                \/ Contains(domain_lower, <<"i", "n", "s", "t", "a", "g", "r", "a", "m">>)
        THEN "SocialMedia"
        ELSE IF Contains(lower, <<"c", "a", "l", "e", "n", "d", "a", "r">>) \/ Contains(lower, <<".", "i", "c", "s">>)
        THEN "Calendar"
        ELSE IF \/ EndsWith(lower, <<".", "p", "d", "f">>)
                \/ EndsWith(lower, <<".", "d", "o", "c">>)
                \/ EndsWith(lower, <<".", "d", "o", "c", "x">>)
                \/ EndsWith(lower, <<".", "x", "l", "s">>)
        THEN "Document"
        ELSE "Website"

\* An insertion at the head of the vector.
PushFront(v, e) == <<e>> \o v

\* Vec::push
Push(v, e) == Append(v, e)

MaxUrlPieces == 3

\* The pieces the texts of the URL scan are built of.
UrlPieces ==
    { <<"h", "t", "t", "p", "s", ":", "/", "/">>, <<" ">>, <<"/">>, <<"x">>, <<"U", "n", "s", "u", "b", "s", "c", "r", "i", "b", "e">>, <<"o", "p", "t", "o", "u", "t">>,
      <<"C", "l", "i", "c", "k">>, <<"l", "i", "n", "k", "e", "d", "i", "n">>, <<"T", "w", "i", "t", "t", "e", "r">>, <<"C", "a", "l", "e", "n", "d", "a", "r">>, <<".", "P", "D", "F">>, <<".", "d", "o", "c", "x">> }

\* Texts that open with a URL scheme.
UrlInputs == {<<"h", "t", "t", "p", ":", "/", "/">> \o Concat(ps) : ps \in Strs(UrlPieces, MaxUrlPieces)}

\* The URL loop of ExtractedEntities::extract(text), entered with no URL yet;
\* urls_at lists the index at which the match of each entry of urls starts.
InitUrl ==
    /\ ex \in {[pc |-> "urls", text |-> t, url_it |-> 1, urls |-> <<>>,
                urls_at |-> <<>>] : t \in UrlInputs}
    /\ addr = Idle /\ subj = Idle /\ sig = Idle /\ body = Idle /\ mail = Idle

\* One iteration of `for cap in URL_REGEX.find_iter(text)`.
UrlMatch ==
    /\ ex.pc = "urls"
    /\ FindRegex(UrlRegex, ex.text, ex.url_it).tag = "Some"
    /\ LET m == FindRegex(UrlRegex, ex.text, ex.url_it).val
           url == SubSeq(ex.text, m.first, m.last)
           domain == ExtractDomain(url)
       IN  ex' = [ex EXCEPT
                    !.url_it = m.last + 1,
                    !.urls_at = Push(@, m.first),
                    !.urls = Push(@, [url |-> url, domain |-> domain,
                                      is_tracking |-> IsTrackingUrl(url),
                                      url_type |-> DetectUrlType(url, domain)])]
    /\ UNCHANGED <<addr, subj, sig, body, mail>>

\* The URL scan finds no further match.
UrlScanEnd ==
    /\ ex.pc = "urls"
    /\ FindRegex(UrlRegex, ex.text, ex.url_it).tag = "None"
    /\ ex' = [ex EXCEPT !.pc = "amounts"]
    /\ UNCHANGED <<addr, subj, sig, body, mail>>

NextUrl == UrlMatch \/ UrlScanEnd

SpecUrl == InitUrl /\ [][NextUrl]_vars

(***************************************************************************)
(* Claims about the classification of URLs.                                *)
(***************************************************************************)
\* Whether the lower-cased string s contains one of the keywords ks.
HasKeyword(s, ks) == \E k \in ks : Contains(ToLower(s), k)

TrackingKeywords ==
    {<<"t", "r", "a", "c", "k">>, <<"c", "l", "i", "c", "k">>, <<"r", "e", "d", "i", "r", "e", "c", "t">>, <<"u", "t", "m", "_">>, <<"m", "c", "_", "e", "i", "d">>, <<"t", "r", "k">>}

SocialKeywords == {<<"l", "i", "n", "k", "e", "d", "i", "n">>, <<"t", "w", "i", "t", "t", "e", "r">>, <<"f", "a", "c", "e", "b", "o", "o", "k">>, <<"i", "n", "s", "t", "a", "g", "r", "a", "m">>}

\* C11: URL classification is priority-ordered, first match wins, on the
\* lower-cased URL or domain: Unsubscribe, then Tracking (is_tracking), then
\* SocialMedia (by domain), then Calendar or Document, else Website; a URL with
\* "unsubscribe" and a tracking keyword is Unsubscribe with is_tracking true,
\* Tracking implies is_tracking, and Other is never produced.
C11_UrlTypeByPriority ==
    ex.pc \in {"urls", "amounts"} =>
        \A k \in 1..Len(ex.urls) :
            LET u == ex.urls[k]
                unsub == HasKeyword(u.url, {<<"u", "n", "s", "u", "b", "s", "c", "r", "i", "b", "e">>, <<"o", "p", "t", "o", "u", "t">>})
                social == HasKeyword(u.domain, SocialKeywords)
            IN  /\ u.is_tracking = HasKeyword(u.url, TrackingKeywords)
                /\ unsub => u.url_type = "Unsubscribe"
                /\ (~unsub /\ u.is_tracking) => u.url_type = "Tracking"
                /\ (~unsub /\ ~u.is_tracking /\ social) =>
                      u.url_type = "SocialMedia"
                /\ (~unsub /\ ~u.is_tracking /\ ~social) =>
                      u.url_type \in {"Calendar", "Document", "Website"}
                /\ u.url_type = "Calendar" =>
                      HasKeyword(u.url, {<<"c", "a", "l", "e", "n", "d", "a", "r">>, <<".", "i", "c", "s">>})
                /\ (u.url_type = "Document") =>
                      /\ ~HasKeyword(u.url, {<<"c", "a", "l", "e", "n", "d", "a", "r">>, <<".", "i", "c", "s">>})
                      /\ \E e \in {<<".", "p", "d", "f">>, <<".", "d", "o", "c">>, <<".", "d", "o", "c", "x">>, <<".", "x", "l", "s">>} :
                            EndsWith(ToLower(u.url), e)
                /\ u.url_type = "Tracking" => u.is_tracking
                /\ u.url_type # "Other"

\* A URL with an unsubscribe keyword and a tracking keyword, classified.
C11_Witness ==
    /\ ex.pc \in {"urls", "amounts"}
    /\ \E k \in 1..Len(ex.urls) :
          /\ HasKeyword(ex.urls[k].url, {<<"u", "n", "s", "u", "b", "s", "c", "r", "i", "b", "e">>, <<"o", "p", "t", "o", "u", "t">>})
          /\ HasKeyword(ex.urls[k].url, TrackingKeywords)
          /\ ex.urls[k].url_type = "Unsubscribe"
          /\ ex.urls[k].is_tracking

(***************************************************************************)
(* extracted.rs: the amount scan and parse_amount.  U+20AC is the euro     *)
(* sign, U+00A3 the pound sign, U+00A5 the yen sign.                       *)
(***************************************************************************)
\* AMOUNT_REGEX:
\* (?:[$€£¥])\s*[\d,]+(?:\.\d{2})?|[\d,]+(?:\.\d{2})?\s*(?:USD|EUR|GBP|CAD|AUD)
AmountRegex ==
    LET symbol == One({"$", "U+20AC", "U+00A3", "U+00A5"})
        space == One(RegexSpace)
        digit == One(RegexDigit)
        number == <<One(RegexDigit \cup {","}), Star(One(RegexDigit \cup {","})),
                    Opt(<<One({"."}), digit, digit>>)>>
        code == Alt(Lit(<<"U", "S", "D">>),
                    <<Alt(Lit(<<"E", "U", "R">>),
                          <<Alt(Lit(<<"G", "B", "P">>),
                                <<Alt(Lit(<<"C", "A", "D">>), Lit(<<"A", "U", "D">>))>>)>>)>>)
    IN  <<Alt(<<symbol, Star(space)>> \o number,
              number \o <<Star(space), code>>)>>

RECURSIVE DecimalValue(_, _)
\* The value of a string of ASCII digits, after acc.
DecimalValue(ds, acc) ==
    IF ds = <<>> THEN acc
    ELSE DecimalValue(Tail(ds), acc * 10 + DigitValue(Head(ds)))

RECURSIVE StripTrailingZeros(_)
StripTrailingZeros(ds) ==
    IF ds # <<>> /\ ds[Len(ds)] = "0"
    THEN StripTrailingZeros(SubSeq(ds, 1, Len(ds) - 1))
    ELSE ds

\* str::parse::<f64> on a string of ASCII digits and '.': digits with at most
\* one '.', one digit at least; the value as its integer part and the digits
\* of its fraction, trailing zeros dropped.  Anything else is an error (None).
ParseF64(clean) ==
    LET dot == Find(clean, <<".">>)
        int == IF dot < 0 THEN clean ELSE Slice(clean, 0, dot)
        frac == IF dot < 0 THEN <<>> ELSE SliceFrom(clean, dot + 1)
    IN  IF \/ Contains(frac, <<".">>)
           \/ int \o frac = <<>>
           \/ \E i \in 1..Len(int \o frac) : ~IsDigit((int \o frac)[i])
        THEN None
        ELSE Some([units |-> DecimalValue(int, 0),
                   frac |-> StripTrailingZeros(frac)])

\* parse_amount with the EUR test made first.
ParseAmountEurFirst(raw) ==
    LET IsKept(c) == IsDigit(c) \/ c = "." \/ c = ","
        value == ParseF64(Replace(SelectSeq(raw, IsKept), <<",">>, <<>>))
    IN  IF value.tag = "None" THEN None
        ELSE Some([raw |-> raw, value |-> value.val,
                   currency |->
                     IF Contains(raw, <<"U+20AC">>) \/ Contains(raw, <<"E", "U", "R">>)
                     THEN "EUR"
                     ELSE IF Contains(raw, <<"$">>) \/ Contains(raw, <<"U", "S", "D">>)
                     THEN "USD"
                     ELSE IF Contains(raw, <<"U+00A3">>) \/ Contains(raw, <<"G", "B", "P">>)
                     THEN "GBP"
                     ELSE "USD"])

\* parse_amount
ParseAmount(raw) ==
    LET IsKept(c) == IsDigit(c) \/ c = "." \/ c = ","
        clean == Replace(SelectSeq(raw, IsKept), <<",">>, <<>>)
        value == ParseF64(clean)
    IN  IF value.tag = "None" THEN None
        ELSE Some([raw |-> raw, value |-> value.val,
                   currency |->
                     IF Contains(raw, <<"$">>) \/ Contains(raw, <<"U", "S", "D">>)
                     THEN "USD"
                     ELSE IF Contains(raw, <<"U+20AC">>) \/ Contains(raw, <<"E", "U", "R">>)
                     THEN "EUR"
                     ELSE IF Contains(raw, <<"U+00A3">>) \/ Contains(raw, <<"G", "B", "P">>)
                     THEN "GBP"
                     ELSE "USD"])

MaxAmountPieces == 3

\* The pieces the texts of the amount scan are built of.
AmountPieces ==
    { <<"$">>, <<"U+20AC">>, <<"U+00A3">>, <<"U+00A5">>, <<"1">>, <<"2", "0">>, <<",">>,
      <<".", "5", "0">>, <<" ">>, <<"U", "S", "D">>, <<"E", "U", "R">>, <<"C", "A", "D">>, <<"U+0663">> }

AmountInputs == {Concat(ps) : ps \in Strs(AmountPieces, MaxAmountPieces)}

\* The amount loop of ExtractedEntities::extract(text), entered with no amount
\* yet; amount_caps lists the matches the iterator has yielded, amounts_at the
\* index at which the match of each entry of amounts starts.
InitAmount ==
    /\ ex \in {[pc |-> "amounts", text |-> t, amount_it |-> 1,
                amount_caps |-> <<>>, amounts |-> <<>>, amounts_at |-> <<>>,
                parsed |-> None] : t \in AmountInputs}
    /\ addr = Idle /\ subj = Idle /\ sig = Idle /\ body = Idle /\ mail = Idle

\* One iteration of `for cap in AMOUNT_REGEX.find_iter(text)`: the amount is
\* pushed if parse_amount returns one.
AmountMatch ==
    /\ ex.pc = "amounts"
    /\ FindRegex(AmountRegex, ex.text, ex.amount_it).tag = "Some"
    /\ LET m == FindRegex(AmountRegex, ex.text, ex.amount_it).val
           amount == ParseAmount(SubSeq(ex.text, m.first, m.last))
       IN  ex' = [ex EXCEPT
                    !.amount_it = m.last + 1,
                    !.amount_caps = Append(@, m),
                    !.amounts_at = IF amount.tag = "Some"
                                   THEN Push(@, m.first) ELSE @,
                    !.amounts = IF amount.tag = "Some"
                                THEN Push(@, amount.val) ELSE @]
    /\ UNCHANGED <<addr, subj, sig, body, mail>>

\* The amount scan finds no further match.
AmountScanEnd ==
    /\ ex.pc = "amounts"
    /\ FindRegex(AmountRegex, ex.text, ex.amount_it).tag = "None"
    /\ ex' = [ex EXCEPT !.pc = "twitter"]
    /\ UNCHANGED <<addr, subj, sig, body, mail>>

\* parse_amount(raw) called on a string of its own, the whole text.
ParseAmountCall ==
    /\ ex.pc = "amounts"
    /\ ex.amount_it = 1
    /\ ex' = [ex EXCEPT !.pc = "parsed", !.parsed = Some(ParseAmount(ex.text))]
    /\ UNCHANGED <<addr, subj, sig, body, mail>>

NextAmount == AmountMatch \/ AmountScanEnd \/ ParseAmountCall

SpecAmount == InitAmount /\ [][NextAmount]_vars

(***************************************************************************)
(* Claims about amounts.                                                   *)
(***************************************************************************)
\* The currency C12 gives a matched text.
ClaimedCurrency(raw) ==
    IF Contains(raw, <<"$">>) \/ Contains(raw, <<"U", "S", "D">>) THEN "USD"
    ELSE IF Contains(raw, <<"U+20AC">>) \/ Contains(raw, <<"E", "U", "R">>) THEN "EUR"
    ELSE IF Contains(raw, <<"U+00A3">>) \/ Contains(raw, <<"G", "B", "P">>) THEN "GBP"
    ELSE "USD"

\* The amounts under test: those pushed by the scan, and the one returned by
\* the call of parse_amount.
AmountsSeen ==
    {ex.amounts[k] : k \in 1..Len(ex.amounts)} \cup
    (IF ex.parsed.tag = "Some" /\ ex.parsed.val.tag = "Some"
     THEN {ex.parsed.val.val} ELSE {})

\* C12: the currency is resolved by presence in the matched text, in priority
\* order: `$` or "USD", else the euro sign or "EUR", else the pound sign or
\* "GBP", else USD; a text with both `$` and "EUR" is USD, and matches with
\* the yen sign, "CAD" or "AUD" are USD.
C12_CurrencyByPriority ==
    ex.pc # "idle" =>
        \A a \in AmountsSeen :
            /\ a.currency = ClaimedCurrency(a.raw)
            /\ (Contains(a.raw, <<"$">>) /\ Contains(a.raw, <<"E", "U", "R">>)) =>
                  a.currency = "USD"
            /\ (/\ \E k \in 1..Len(ex.amounts) : ex.amounts[k] = a
                /\ \/ Contains(a.raw, <<"U+00A5">>)
                   \/ Contains(a.raw, <<"C", "A", "D">>)
                   \/ Contains(a.raw, <<"A", "U", "D">>)) =>
                  a.currency = "USD"

\* parse_amount has resolved a text with `$` and "EUR".
C12_Witness ==
    /\ ex.pc = "parsed"
    /\ ex.parsed.val.tag = "Some"
    /\ Contains(ex.text, <<"$">>) /\ Contains(ex.text, <<"E", "U", "R">>)
    /\ ex.parsed.val.val.currency = "USD"

\* The value of a digit as the amount pattern reads it (\d).
WrittenDigitValue(c) == IF c = "U+0663" THEN 3 ELSE DigitValue(c)

RECURSIVE WrittenValue(_, _)
\* The value of a string of digits of the amount pattern, after acc.
WrittenValue(ds, acc) ==
    IF ds = <<>> THEN acc
    ELSE WrittenValue(Tail(ds), acc * 10 + WrittenDigitValue(Head(ds)))

RECURSIVE WrittenFraction(_)
\* The ASCII digits of a fraction written in digits of the amount pattern,
\* its trailing zeros dropped.
WrittenFraction(ds) ==
    IF ds = <<>> THEN <<>>
    ELSE IF \A i \in 1..Len(ds) : WrittenDigitValue(ds[i]) = 0 THEN <<>>
    ELSE <<Digits[WrittenDigitValue(Head(ds)) + 1]>> \o WrittenFraction(Tail(ds))

\* The number a match writes with its digits and decimal point once every ','
\* is deleted, or None when they write no number.
NumberWritten(raw) ==
    LET IsWritten(c) == c \in RegexDigit \/ c = "."
        clean == SelectSeq(raw, IsWritten)
        dot == Find(clean, <<".">>)
        int == IF dot < 0 THEN clean ELSE Slice(clean, 0, dot)
        frac == IF dot < 0 THEN <<>> ELSE SliceFrom(clean, dot + 1)
    IN  IF int \o frac = <<>> \/ Contains(frac, <<".">>) THEN None
        ELSE Some([units |-> WrittenValue(int, 0), frac |-> WrittenFraction(frac)])

RECURSIVE ClaimedAmounts(_)
\* The values C13 gives the matches caps, in text order.
ClaimedAmounts(caps) ==
    IF caps = <<>> THEN <<>>
    ELSE LET n == NumberWritten(SubSeq(ex.text, Head(caps).first, Head(caps).last))
         IN  (IF n.tag = "Some" THEN <<n.val>> ELSE <<>>)
                 \o ClaimedAmounts(Tail(caps))

\* C13: every amount's value is the number written by the match's digits and
\* decimal point once every ',' is deleted; a match that writes no number
\* gives no amount and does not stop the scan, so amounts holds exactly the
\* parseable matches in text order.
C13_ValueIsNumberWritten ==
    ex.pc \in {"amounts", "twitter"} =>
        [k \in 1..Len(ex.amounts) |-> ex.amounts[k].value]
            = ClaimedAmounts(ex.amount_caps)

(***************************************************************************)
(* extracted.rs: the phone and social-handle scans, and the whole of       *)
(* ExtractedEntities::extract.                                             *)
(***************************************************************************)
\* PHONE_REGEX: (?:\+?1[-.\s]?)?(?:\(?\d{3}\)?[-.\s]?)?\d{3}[-.\s]?\d{4}
PhoneRegex ==
    LET d == One(RegexDigit)
        sep == Opt(<<One({"-", "."} \cup RegexSpace)>>)
    IN  << Opt(<<Opt(<<One({"+"})>>), One({"1"}), sep>>),
           Opt(<<Opt(<<One({"("})>>), d, d, d, Opt(<<One({")"})>>), sep>>),
           d, d, d, sep, d, d, d, d >>

\* TWITTER_REGEX: @([a-zA-Z0-9_]{1,15})
TwitterRegex ==
    LET w == One(Letters \cup {Digits[d] : d \in 1..10} \cup {"_"})
    IN  <<One({"@"}), w>> \o [k \in 1..14 |-> Opt(<<w>>)]

\* LINKEDIN_REGEX: linkedin\.com/in/([a-zA-Z0-9-]+)
LinkedinRegex ==
    LET c == One(Letters \cup {Digits[d] : d \in 1..10} \cup {"-"})
    IN  Lit(<<"l", "i", "n", "k", "e", "d", "i", "n", ".", "c", "o", "m", "/", "i", "n", "/">>) \o <<c, Star(c)>>

\* normalize_phone
NormalizePhone(phone) ==
    LET IsKept(c) == IsDigit(c) \/ c = "+"
    IN  SelectSeq(phone, IsKept)

\* detect_phone_type
DetectPhoneType(normalized) ==
    LET digits == SelectSeq(normalized, IsDigit)
    IN  IF \/ StartsWith(digits, <<"1", "8", "0", "0">>)
           \/ StartsWith(digits, <<"1", "8", "8", "8">>)
           \/ StartsWith(digits, <<"1", "8", "7", "7">>)
        THEN "TollFree"
        ELSE "Unknown"

MaxEntPieces == 3

\* The pieces the texts of the whole extraction are built of: one of each kind
\* of entity, and a space.
EntPieces ==
    { <<"a", "@", "a", ".", "a", "a">>, <<"5", "5", "5", "-", "1", "2", "3", "4">>, <<"h", "t", "t", "p", ":", "/", "/", "x">>, <<"$", "1">>, <<" ">>, <<"@", "b", "o", "b">>,
      <<"l", "i", "n", "k", "e", "d", "i", "n", ".", "c", "o", "m", "/", "i", "n", "/", "a", "l">> }

EntInputs == {Concat(ps) : ps \in Strs(EntPieces, MaxEntPieces)}

\* Entry of ExtractedEntities::extract(text): Self::default(), each iterator
\* at the head of the text.  The *_at fields list the index at which the match
\* of each entry starts.
InitEntities ==
    /\ ex \in {[pc |-> "emails", text |-> t,
                cursor |-> 1, emails |-> <<>>, cap |-> None, start |-> 0,
                end |-> 0,
                phone_it |-> 1, phone_numbers |-> <<>>, phones_at |-> <<>>,
                url_it |-> 1, urls |-> <<>>, urls_at |-> <<>>,
                amount_it |-> 1, amount_caps |-> <<>>, amounts |-> <<>>,
                amounts_at |-> <<>>,
                twitter_it |-> 1, linkedin_it |-> 1, social_handles |-> <<>>,
                social_at |-> <<>>,
                names |-> <<>>, companies |-> <<>>, dates |-> <<>>,
                addresses |-> <<>>] : t \in EntInputs}
    /\ addr = Idle /\ subj = Idle /\ sig = Idle /\ body = Idle /\ mail = Idle

\* One iteration of `for cap in PHONE_REGEX.find_iter(text)`.
PhoneMatch ==
    /\ ex.pc = "emails_done"
    /\ FindRegex(PhoneRegex, ex.text, ex.phone_it).tag = "Some"
    /\ LET m == FindRegex(PhoneRegex, ex.text, ex.phone_it).val
           raw == SubSeq(ex.text, m.first, m.last)
           normalized == NormalizePhone(raw)
       IN  ex' = [ex EXCEPT
                    !.phone_it = m.last + 1,
                    !.phones_at = Push(@, m.first),
                    !.phone_numbers =
                        Push(@, [raw |-> raw, normalized |-> normalized,
                                 phone_type |-> DetectPhoneType(normalized),
                                 country_code |-> None])]
    /\ UNCHANGED <<addr, subj, sig, body, mail>>

\* The phone scan finds no further match.
PhoneScanEnd ==
    /\ ex.pc = "emails_done"
    /\ FindRegex(PhoneRegex, ex.text, ex.phone_it).tag = "None"
    /\ ex' = [ex EXCEPT !.pc = "urls"]
    /\ UNCHANGED <<addr, subj, sig, body, mail>>

\* One iteration of `for cap in TWITTER_REGEX.captures_iter(text)`: group 1 is
\* the match less its '@'.
TwitterMatch ==
    /\ ex.pc = "twitter"
    /\ FindRegex(TwitterRegex, ex.text, ex.twitter_it).tag = "Some"
    /\ LET m == FindRegex(TwitterRegex, ex.text, ex.twitter_it).val
       IN  ex' = [ex EXCEPT
                    !.twitter_it = m.last + 1,
                    !.social_at = Push(@, m.first),
                    !.social_handles =
                        Push(@, [platform |-> "Twitter",
                                 handle |-> SubSeq(ex.text, m.first + 1, m.last)])]
    /\ UNCHANGED <<addr, subj, sig, body, mail>>

\* The Twitter scan finds no further match.
TwitterScanEnd ==
    /\ ex.pc = "twitter"
    /\ FindRegex(TwitterRegex, ex.text, ex.twitter_it).tag = "None"
    /\ ex' = [ex EXCEPT !.pc = "linkedin"]
    /\ UNCHANGED <<addr, subj, sig, body, mail>>

\* One iteration of `for cap in LINKEDIN_REGEX.captures_iter(text)`: group 1
\* is the match less "linkedin.com/in/".
LinkedinMatch ==
    /\ ex.pc = "linkedin"
    /\ FindRegex(LinkedinRegex, ex.text, ex.linkedin_it).tag = "Some"
    /\ LET m == FindRegex(LinkedinRegex, ex.text, ex.linkedin_it).val
       IN  ex' = [ex EXCEPT
                    !.linkedin_it = m.last + 1,
                    !.social_at = Push(@, m.first),
                    !.social_handles =
                        Push(@, [platform |-> "LinkedIn",
                                 handle |-> SubSeq(ex.text, m.first + 16, m.last)])]
    /\ UNCHANGED <<addr, subj, sig, body, mail>>

\* The LinkedIn scan finds no further match: extract returns entities.
LinkedinScanEnd ==
    /\ ex.pc = "linkedin"
    /\ FindRegex(LinkedinRegex, ex.text, ex.linkedin_it).tag = "None"
    /\ ex' = [ex EXCEPT !.pc = "done"]
    /\ UNCHANGED <<addr, subj, sig, body, mail>>

NextEntities ==
    \/ EmailMatch \/ EmailScanEnd
    \/ PhoneMatch \/ PhoneScanEnd
    \/ UrlMatch \/ UrlScanEnd
    \/ AmountMatch \/ AmountScanEnd
    \/ TwitterMatch \/ TwitterScanEnd
    \/ LinkedinMatch \/ LinkedinScanEnd

SpecEntities == InitEntities /\ [][NextEntities]_vars

(***************************************************************************)
(* Claims about the sequences of ExtractedEntities.                        *)
(***************************************************************************)
\* Whether the numbers of the sequence s are strictly increasing.
Increasing(s) == \A i, j \in 1..Len(s) : i < j => s[i] < s[j]

\* The start offsets of the entries of social_handles on one platform, in the
\* order of the sequence.
SocialAt(platform) ==
    LET Idx == {k \in 1..Len(ex.social_handles) :
                   ex.social_handles[k].platform = platform}
        RECURSIVE Pick(_)
        Pick(k) == IF k > Len(ex.social_handles) THEN <<>>
                   ELSE (IF k \in Idx THEN <<ex.social_at[k]>> ELSE <<>>)
                            \o Pick(k + 1)
    IN  Pick(1)

\* The four sequences that are filled by one scan each.
OneScanSequencesOrdered ==
    /\ Increasing([k \in 1..Len(ex.emails) |-> ex.emails[k].position])
    /\ Increasing(ex.phones_at) /\ Len(ex.phones_at) = Len(ex.phone_numbers)
    /\ Increasing(ex.urls_at) /\ Len(ex.urls_at) = Len(ex.urls)
    /\ Increasing(ex.amounts_at) /\ Len(ex.amounts_at) = Len(ex.amounts)

\* C14 as stated: every sequence of the ExtractedEntities lists its entries in
\* increasing order of match start offset, social_handles included; for emails
\* position is strictly increasing.
C14_EverySequenceInTextOrder ==
    (ex.pc # "idle" /\ ex.pc # "panic") =>
        /\ OneScanSequencesOrdered
        /\ Increasing(ex.social_at)

\* C14, amended: emails, phone_numbers, urls and amounts are filled by one
\* scan each and list their entries in increasing order of match start offset
\* (position strictly increasing for emails); social_handles is filled by two
\* scans, so it lists every Twitter handle in text order and then every
\* LinkedIn handle in text order.
C14_ScanOrder ==
    (ex.pc # "idle" /\ ex.pc # "panic") =>
        /\ OneScanSequencesOrdered
        /\ Len(ex.social_at) = Len(ex.social_handles)
        /\ \A i, j \in 1..Len(ex.social_handles) :
              (i < j /\ ex.social_handles[i].platform = "LinkedIn") =>
                  ex.social_handles[j].platform = "LinkedIn"
        /\ Increasing(SocialAt("Twitter"))
        /\ Increasing(SocialAt("LinkedIn"))

\* extract has returned social_handles with a Twitter handle listed before a
\* LinkedIn handle that stands earlier in the text, and two entries in
\* another sequence.
C14_Witness ==
    /\ ex.pc = "done"
    /\ \E i, j \in 1..Len(ex.social_handles) :
          /\ i < j
          /\ ex.social_handles[i].platform = "Twitter"
          /\ ex.social_handles[j].platform = "LinkedIn"
          /\ ex.social_at[j] < ex.social_at[i]
    /\ Len(ex.emails) = 1

(***************************************************************************)
(* extracted.rs: ExtractedEntities::is_empty and total_count, on entities  *)
(* whose (public) sequences hold any number of entries.                    *)
(***************************************************************************)
\* is_empty with social_handles taken into account.
IsEmptyWithSocial(e) ==
    /\ Len(e.emails) = 0
    /\ Len(e.phone_numbers) = 0
    /\ Len(e.urls) = 0
    /\ Len(e.amounts) = 0
    /\ Len(e.social_handles) = 0

\* ExtractedEntities::is_empty
IsEmpty(e) ==
    /\ Len(e.emails) = 0
    /\ Len(e.phone_numbers) = 0
    /\ Len(e.urls) = 0
    /\ Len(e.amounts) = 0

\* ExtractedEntities::total_count
TotalCount(e) ==
    Len(e.emails) + Len(e.phone_numbers) + Len(e.urls) + Len(e.amounts)
        + Len(e.social_handles)

MaxEntries == 1

\* The sequences of up to MaxEntries entries; what an entry holds plays no
\* part in the two methods.
Entries == {[k \in 1..n |-> "entry"] : n \in 0..MaxEntries}

\* An ExtractedEntities value with any sequences, neither method called yet.
InitCounts ==
    /\ ex \in {[pc |-> "done", emails |-> e, phone_numbers |-> p, urls |-> u,
                names |-> n, companies |-> c, dates |-> d, amounts |-> a,
                addresses |-> ad, social_handles |-> s,
                is_empty |-> None, total_count |-> None] :
                  e \in Entries, p \in Entries, u \in Entries, n \in Entries,
                  c \in Entries, d \in Entries, a \in Entries, ad \in Entries,
                  s \in Entries}
    /\ addr = Idle /\ subj = Idle /\ sig = Idle /\ body = Idle /\ mail = Idle

\* entities.is_empty()
IsEmptyCall ==
    /\ ex.pc = "done"
    /\ ex.is_empty = None
    /\ ex' = [ex EXCEPT !.is_empty = Some(IsEmpty(ex))]
    /\ UNCHANGED <<addr, subj, sig, body, mail>>

\* entities.total_count()
TotalCountCall ==
    /\ ex.pc = "done"
    /\ ex.total_count = None
    /\ ex' = [ex EXCEPT !.total_count = Some(TotalCount(ex))]
    /\ UNCHANGED <<addr, subj, sig, body, mail>>

NextCounts == IsEmptyCall \/ TotalCountCall

SpecCounts == InitCounts /\ [][NextCounts]_vars

MaxNameLen == 5

NameAlphabet == {"a", "b", " ", "\""}

NameInputs == Strs(NameAlphabet, MaxNameLen)

InitName ==
    /\ addr \in {[pc |-> "name", input |-> i, out |-> None] : i \in NameInputs}
    /\ subj = Idle /\ sig = Idle /\ body = Idle /\ ex = Idle /\ mail = Idle

\* PersonName::parse(input)
ParseName ==
    /\ addr.pc = "name"
    /\ addr' = [addr EXCEPT !.pc = "named",
                            !.out = Some(PersonNameParse(addr.input))]
    /\ UNCHANGED <<subj, sig, body, ex, mail>>

NextName == ParseName

SpecName == InitName /\ [][NextName]_vars

\* The input without its surrounding whitespace and, inside that, without its
\* surrounding double quotes.
Unquoted(s) == TrimMatches(Trim(s), "\"")

\* The maximal runs of non-whitespace characters of s, in order.
Tokens(s) ==
    LET starts == {i \in 1..Len(s) :
                      /\ ~IsWhitespace(s[i])
                      /\ (i = 1 \/ IsWhitespace(s[i - 1]))}
        EndOf(i) == CHOOSE j \in i..Len(s) :
                      /\ \A k \in i..j : ~IsWhitespace(s[k])
                      /\ (j = Len(s) \/ IsWhitespace(s[j + 1]))
        Nth(n) == CHOOSE i \in starts : Cardinality({k \in starts : k < i}) = n - 1
    IN  [n \in 1..Cardinality(starts) |-> SubSeq(s, Nth(n), EndOf(Nth(n)))]

\* C16 (tokens): with the surrounding whitespace and double quotes removed and
\* the rest split on whitespace, no token gives full = "" and no first or
\* last; one token gives full = first = the token and no last; two or more
\* give first = the first token, last = the final token and full = the
\* unquoted text with its spacing unchanged.
C16_TokensAndFull ==
    addr.pc = "named" =>
        LET s == Unquoted(addr.input)
            parts == Tokens(s)
            name == addr.out.val
        IN  /\ Len(parts) = 0 =>
                  name = [full |-> <<>>, first |-> None, last |-> None]
            /\ Len(parts) = 1 =>
                  name = [full |-> parts[1], first |-> Some(parts[1]), last |-> None]
            /\ Len(parts) >= 2 =>
                  name = [full |-> s, first |-> Some(parts[1]),
                          last |-> Some(parts[Len(parts)])]

\* C16: PersonName::parse gives the fields the token count decides, and full
\* never starts or ends with whitespace.
C16_FullHasNoOuterWhitespace ==
    /\ C16_TokensAndFull
    /\ addr.pc = "named" =>
          LET full == addr.out.val.full
          IN  full # <<>> =>
                  /\ ~IsWhitespace(full[1])
                  /\ ~IsWhitespace(full[Len(full)])

(***************************************************************************)
(* parser.rs: extract_body_parts and the walk of extract_body_recursive,   *)
(* one part at a time.  frames holds, for every call of                    *)
(* extract_body_recursive on the stack, the subparts its loop has still to *)
(* visit; the innermost call is last.                                      *)
(***************************************************************************)
\* The loop body on a part without subparts, every later part overwriting.
LeafStepLastWins(part, acc) ==
    LET content_type == ToLower(part.mimetype)
    IN  IF part.body.tag # "Some" THEN acc
        ELSE IF Contains(content_type, <<"t", "e", "x", "t", "/", "p", "l", "a", "i", "n">>)
        THEN [acc EXCEPT !.text = part.body.val]
        ELSE IF Contains(content_type, <<"t", "e", "x", "t", "/", "h", "t", "m", "l">>)
        THEN [acc EXCEPT !.html = Some(part.body.val)]
        ELSE acc

\* The loop body of extract_body_recursive on a part without subparts.
LeafStep(part, acc) ==
    LET content_type == ToLower(part.mimetype)
    IN  IF part.body.tag # "Some" THEN acc
        ELSE IF Contains(content_type, <<"t", "e", "x", "t", "/", "p", "l", "a", "i", "n">>) /\ acc.text = <<>>
        THEN [acc EXCEPT !.text = part.body.val]
        ELSE IF Contains(content_type, <<"t", "e", "x", "t", "/", "h", "t", "m", "l">>) /\ acc.html = None
        THEN [acc EXCEPT !.html = Some(part.body.val)]
        ELSE acc

\* The leaves that occur inside nested multiparts.
WalkInnerLeaves ==
    { Leaf(<<"t", "e", "x", "t", "/", "p", "l", "a", "i", "n">>, Some(<<"x">>)),
      Leaf(<<"t", "e", "x", "t", "/", "h", "t", "m", "l">>, Some(<<"y">>)) }

\* The leaves of the walked messages: plain and HTML parts with empty,
\* non-empty and undecodable bodies, a part whose type names both text/plain
\* and text/html, and an attachment.
WalkLeaves ==
    WalkInnerLeaves \cup
    { Leaf(<<"t", "e", "x", "t", "/", "p", "l", "a", "i", "n">>, Some(<<>>)),
      Leaf(<<"t", "e", "x", "t", "/", "p", "l", "a", "i", "n">>, Some(<<"a">>)),
      Leaf(<<"t", "e", "x", "t", "/", "p", "l", "a", "i", "n">>, None),
      Leaf(<<"t", "e", "x", "t", "/", "h", "t", "m", "l">>, Some(<<>>)),
      Leaf(<<"t", "e", "x", "t", "/", "h", "t", "m", "l">>, Some(<<"c">>)),
      Leaf(<<"t", "e", "x", "t", "/", "h", "t", "m", "l">>, None),
      Leaf(<<"t", "e", "x", "t", "/", "p", "l", "a", "i", "n", "+", "t", "e", "x", "t", "/", "h", "t", "m", "l">>, Some(<<"e">>)),
      Leaf(<<"i", "m", "a", "g", "e", "/", "p", "n", "g">>, Some(<<"g">>)) }

WalkTrees ==
    LET inner == {Multipart(ps) : ps \in Lists(WalkInnerLeaves, MaxParts)}
    IN  WalkLeaves \cup {Multipart(ps) : ps \in Lists(WalkLeaves \cup inner, MaxParts)}

InitWalk ==
    /\ body \in {[pc |-> "start", parsed |-> t, frames |-> <<>>,
                  text |-> <<>>, html |-> None] : t \in WalkTrees}
    /\ addr = Idle /\ subj = Idle /\ sig = Idle /\ ex = Idle /\ mail = Idle

\* extract_body_parts on a message without subparts.
PartsSingle ==
    /\ body.pc = "start"
    /\ body.parsed.subparts = <<>>
    /\ LET parts == ExtractBodyParts(body.parsed)
       IN  body' = [body EXCEPT !.pc = "parts", !.text = parts.text,
                                !.html = parts.html]
    /\ UNCHANGED <<addr, subj, sig, ex, mail>>

\* extract_body_parts on a multipart message: the call of
\* extract_body_recursive(parsed, &mut text, &mut html).
PartsRecurse ==
    /\ body.pc = "start"
    /\ body.parsed.subparts # <<>>
    /\ body' = [body EXCEPT !.pc = "walk", !.frames = <<body.parsed.subparts>>]
    /\ UNCHANGED <<addr, subj, sig, ex, mail>>

\* One iteration of the loop on a part without subparts.
VisitLeaf ==
    /\ body.pc = "walk"
    /\ LET d == Len(body.frames)
           top == body.frames[d]
       IN  /\ top # <<>>
           /\ Head(top).subparts = <<>>
           /\ LET acc == LeafStep(Head(top), [text |-> body.text, html |-> body.html])
              IN  body' = [body EXCEPT !.frames[d] = Tail(top),
                                       !.text = acc.text, !.html = acc.html]
    /\ UNCHANGED <<addr, subj, sig, ex, mail>>

\* One iteration of the loop on a part with subparts: the recursive call.
Descend ==
    /\ body.pc = "walk"
    /\ LET d == Len(body.frames)
           top == body.frames[d]
       IN  /\ top # <<>>
           /\ Head(top).subparts # <<>>
           /\ body' = [body EXCEPT
                         !.frames = Append([body.frames EXCEPT ![d] = Tail(top)],
                                           Head(top).subparts)]
    /\ UNCHANGED <<addr, subj, sig, ex, mail>>

\* The loop of a recursive call ends: back in the caller's loop.
Return ==
    /\ body.pc = "walk"
    /\ Len(body.frames) > 1
    /\ body.frames[Len(body.frames)] = <<>>
    /\ body' = [body EXCEPT !.frames = SubSeq(body.frames, 1, Len(body.frames) - 1)]
    /\ UNCHANGED <<addr, subj, sig, ex, mail>>

\* The loop of the outermost call ends: extract_body_parts returns (text, html).
WalkEnd ==
    /\ body.pc = "walk"
    /\ body.frames = <<<<>>>>
    /\ body' = [body EXCEPT !.pc = "parts", !.frames = <<>>]
    /\ UNCHANGED <<addr, subj, sig, ex, mail>>

NextWalk ==
    \/ PartsSingle
    \/ PartsRecurse
    \/ VisitLeaf
    \/ Descend
    \/ Return
    \/ WalkEnd

SpecWalk == InitWalk /\ [][NextWalk]_vars

(***************************************************************************)
(* Claims about the multipart walk.                                        *)
(***************************************************************************)
RECURSIVE LeavesOf(_)
\* The parts without subparts under a list of parts, depth-first in part order.
LeavesOf(parts) ==
    IF parts = <<>> THEN <<>>
    ELSE (IF Head(parts).subparts = <<>> THEN <<Head(parts)>>
          ELSE LeavesOf(Head(parts).subparts)) \o LeavesOf(Tail(parts))

RECURSIVE LeavesAhead(_)
\* The leaves the walk has still to visit: those of the innermost call first.
LeavesAhead(frames) ==
    IF frames = <<>> THEN <<>>
    ELSE LeavesOf(frames[Len(frames)]) \o LeavesAhead(SubSeq(frames, 1, Len(frames) - 1))

\* The leaves the walk has visited so far.
LeavesVisited ==
    LET all == LeavesOf(body.parsed.subparts)
    IN  SubSeq(all, 1, Len(all) - Len(LeavesAhead(body.frames)))

\* The places of the leaves with a decoded body whose type contains t.
Typed(ls, t) ==
    {i \in 1..Len(ls) : ls[i].body.tag = "Some" /\ Contains(ToLower(ls[i].mimetype), t)}

\* The places of the text/plain leaves with a non-empty body.
PlainCandidates(ls) == {i \in Typed(ls, <<"t", "e", "x", "t", "/", "p", "l", "a", "i", "n">>) : ls[i].body.val # <<>>}

\* The body of the first text/plain leaf with a non-empty body, else "".
FirstPlain(ls) ==
    LET c == PlainCandidates(ls)
    IN  IF c = {} THEN <<>> ELSE ls[CHOOSE i \in c : \A j \in c : i <= j].body.val

\* The body of the first leaf of the places c, if any.
FirstBody(ls, c) ==
    IF c = {} THEN None ELSE Some(ls[CHOOSE i \in c : \A j \in c : i <= j].body.val)

\* The text/html leaves the walk did not read as text/plain: a leaf whose type
\* also contains text/plain counts only after a non-empty plain text was found.
HtmlCandidates(ls) ==
    {i \in Typed(ls, <<"t", "e", "x", "t", "/", "h", "t", "m", "l">>) :
        i \in Typed(ls, <<"t", "e", "x", "t", "/", "p", "l", "a", "i", "n">>) => \E j \in PlainCandidates(ls) : j < i}

\* A later part changes neither a non-empty text nor an html that is set.
FoundIsKept ==
    /\ body.text # <<>> => body'.text = body.text
    /\ body.html # None => body'.html = body.html

\* C17 as stated: at every point of the walk of a multipart message, text is
\* the body of the first visited leaf whose type contains text/plain and whose
\* body is non-empty, html is the body of the first visited leaf whose type
\* contains text/html, and neither changes once found.
C17_FirstPlainFirstHtml ==
    /\ [](body.pc \in {"walk", "parts"} /\ body.parsed.subparts # <<>> =>
            LET ls == LeavesVisited
            IN  /\ body.text = FirstPlain(ls)
                /\ body.html = FirstBody(ls, Typed(ls, <<"t", "e", "x", "t", "/", "h", "t", "m", "l">>)))
    /\ [][FoundIsKept]_vars

\* C17 (amended): as above, but html is the body of the first visited
\* text/html leaf that the walk did not read as text/plain.
C17_FirstPlainFirstUnreadHtml ==
    /\ [](body.pc \in {"walk", "parts"} /\ body.parsed.subparts # <<>> =>
            LET ls == LeavesVisited
            IN  /\ body.text = FirstPlain(ls)
                /\ body.html = FirstBody(ls, HtmlCandidates(ls)))
    /\ [][FoundIsKept]_vars

\* The walk of a message with two non-empty text/plain leaves and an HTML leaf
\* has ended with text and html found.
C17_Witness ==
    /\ body.pc = "parts"
    /\ body.parsed.subparts # <<>>
    /\ Cardinality(PlainCandidates(LeavesOf(body.parsed.subparts))) >= 2
    /\ body.text # <<>>
    /\ body.html # None

(***************************************************************************)
(* Claims about Body::best_text.                                           *)
(***************************************************************************)
\* The text the claim names: text when non-empty, else text_from_html when
\* present, else the empty string.
PlainElseHtmlDerived(b) ==
    IF b.text # <<>> THEN b.text
    ELSE IF b.text_from_html # None THEN b.text_from_html.val
    ELSE <<>>

\* C18: for every Body parse_email builds, best_text() is text when text is
\* non-empty, else text_from_html when present, else ""; the signature split
\* and the word, char and line counts of the Body are those of that text, it
\* is the text handed to entity extraction, and text_from_html is present only
\* when text is empty and an HTML part exists.
C18_OneTextStream ==
    body.pc \in {"built", "extracted"} =>
        LET b == body.out.val
            t == PlainElseHtmlDerived(b)
            split == SeparateSignature(t)
        IN  /\ b.content_without_signature = split.content_without_signature
            /\ b.signature = split.signature
            /\ b.word_count = Len(SplitWhitespace(t))
            /\ b.char_count = ByteLen(t)
            /\ b.line_count = Len(Lines(t))
            /\ body.pc = "extracted" => body.extractor_input = Some(t)
            /\ b.text_from_html # None => b.text = <<>> /\ b.html # None

\* A message with an HTML part and no plain text has reached the extractor:
\* the text comes from text_from_html and a signature was split off it.
C18_Witness ==
    /\ body.pc = "extracted"
    /\ body.out.val.text = <<>>
    /\ body.out.val.text_from_html # None
    /\ body.out.val.signature # None
    /\ body.extractor_input.val # <<>>
    /\ body.out.val.word_count > 1

(***************************************************************************)
(* f32 values of the form m * 2^e with m = 0 or 2^23 <= m < 2^24, and the  *)
(* IEEE-754 round-to-nearest-even addition of two positive ones whose      *)
(* exponents lie close enough for the exact sum to fit the integers here.  *)
(***************************************************************************)
Pow2(k) == 2 ^ k

F32(m, e) == [m |-> m, e |-> e]

\* 0.0_f32
F32Zero == F32(0, 0)

\* 1.0_f32
F32One == F32(8388608, -23)

\* The number of low bits the integer n has beyond 24.
ExtraBits(n) == CHOOSE k \in 0..8 : n < Pow2(24 + k) /\ (k = 0 \/ n >= Pow2(23 + k))

\* n * 2^e rounded to 24 significant bits, ties to even.
F32Round(n, e) ==
    LET k == ExtraBits(n)
        q == n \div Pow2(k)
        r == n % Pow2(k)
        up == k > 0 /\ (2 * r > Pow2(k) \/ (2 * r = Pow2(k) /\ q % 2 = 1))
        m == IF up THEN q + 1 ELSE q
    IN  IF m = Pow2(24) THEN F32(Pow2(23), e + k + 1) ELSE F32(m, e + k)

\* x + y on f32
F32Add(x, y) ==
    IF x.m = 0 THEN y
    ELSE IF y.m = 0 THEN x
    ELSE LET e == Min(x.e, y.e)
         IN  F32Round(x.m * Pow2(x.e - e) + y.m * Pow2(y.e - e), e)

\* x <= y on f32 values that are 0 or positive
F32Le(x, y) ==
    IF x.m = 0 THEN TRUE
    ELSE IF y.m = 0 THEN FALSE
    ELSE LET e == Min(x.e, y.e)
         IN  x.m * Pow2(x.e - e) <= y.m * Pow2(y.e - e)

\* f32::min
F32Min(x, y) == IF F32Le(x, y) THEN x ELSE y

\* The literals 0.1, 0.2 and 0.15 as f32.
WeightNoreply == F32(13421773, -27)
WeightTracking == F32(13421773, -26)
WeightUrgency == F32(10066330, -26)

(***************************************************************************)
(* parser.rs: analyze_metadata, the three spam checks one after another    *)
(* and then the rest of the function.                                      *)
(***************************************************************************)
\* EmailAddress::is_noreply
IsNoreply(from) ==
    LET lower == ToLower(from.local_part)
    IN  \/ Contains(lower, <<"n", "o", "r", "e", "p", "l", "y">>)
        \/ Contains(lower, <<"n", "o", "-", "r", "e", "p", "l", "y">>)
        \/ Contains(lower, <<"d", "o", "n", "o", "t", "r", "e", "p", "l", "y">>)
        \/ Contains(lower, <<"a", "u", "t", "o", "m", "a", "t", "e", "d">>)
        \/ Contains(lower, <<"m", "a", "i", "l", "e", "r", "-", "d", "a", "e", "m", "o", "n">>)

\* extracted.urls.iter().filter(|u| u.is_tracking).count()
TrackingCount(urls) == Cardinality({i \in 1..Len(urls) : urls[i].is_tracking})

\* A tracking test that three tracking URLs already satisfy.
ExcessiveTrackingFromThree(tracking_count) == tracking_count >= 3

\* tracking_count > 3
ExcessiveTracking(tracking_count) == tracking_count > 3

SpamIndicator(indicator, weight) == [indicator |-> indicator, weight |-> weight]

CategoryHint(category, confidence, reason) ==
    [category |-> category, confidence |-> confidence, reason |-> reason]

MaxSpamUrls == 4

\* The senders, headers, subjects, texts and entities analyze_metadata is run on.
SpamSenders == {[local_part |-> l] : l \in {<<"b", "o", "b">>, <<"N", "o", "R", "e", "p", "l", "y">>, <<"m", "a", "i", "l", "e", "r", "-", "d", "a", "e", "m", "o", "n">>}}

SpamHeaders ==
    {[priority |-> p, list_unsubscribe |-> l, mailer |-> m] :
        p \in {None, Some("High"), Some("Normal")},
        l \in {None, Some(<<"<", "u", ">">>)}, m \in {None, Some(<<"x">>)}}

SpamSubjects ==
    {[original |-> o] : o \in {<<"H", "i">>, <<"U", "R", "G", "E", "N", "T", ":", " ", "A", "c", "t", " ", "N", "o", "w">>, <<"L", "i", "m", "i", "t", "e", "d", " ", "t", "i", "m", "e">>, <<"a", "s", "a", "p">>}}

SpamTexts == {<<"o", "k">>, <<"T", "h", "a", "n", "k", "s", ",", " ", "g", "r", "e", "a", "t", " ", "p", "r", "o", "b", "l", "e", "m">>, <<"a", " ", "P", "r", "o", "b", "l", "e", "m">>}

SpamUrls == UNION {[1..k -> {[is_tracking |-> t] : t \in BOOLEAN}] : k \in 0..MaxSpamUrls}

InitSpam ==
    /\ mail \in {[pc |-> "noreply", from |-> f, headers |-> h, subject |-> s,
                  best_text |-> t, urls |-> u, phone_numbers |-> p,
                  companies |-> c, spam_indicators |-> <<>>,
                  spam_score |-> F32Zero, metadata |-> None] :
                    f \in SpamSenders, h \in SpamHeaders, s \in SpamSubjects,
                    t \in SpamTexts, u \in SpamUrls,
                    p \in {<<>>, <<"entry">>}, c \in {<<>>, <<"entry">>}}
    /\ addr = Idle /\ subj = Idle /\ sig = Idle /\ body = Idle /\ ex = Idle

\* if from.is_noreply() { push; spam_score += 0.1 }
NoreplyCheck ==
    /\ mail.pc = "noreply"
    /\ mail' = IF IsNoreply(mail.from)
               THEN [mail EXCEPT !.pc = "tracking",
                       !.spam_indicators = Push(@, SpamIndicator("noreply_sender", WeightNoreply)),
                       !.spam_score = F32Add(@, WeightNoreply)]
               ELSE [mail EXCEPT !.pc = "tracking"]
    /\ UNCHANGED <<addr, subj, sig, body, ex>>

\* if tracking_count > 3 { push; spam_score += 0.2 }
TrackingCheck ==
    /\ mail.pc = "tracking"
    /\ mail' = IF ExcessiveTracking(TrackingCount(mail.urls))
               THEN [mail EXCEPT !.pc = "subject",
                       !.spam_indicators = Push(@, SpamIndicator("excessive_tracking", WeightTracking)),
                       !.spam_score = F32Add(@, WeightTracking)]
               ELSE [mail EXCEPT !.pc = "subject"]
    /\ UNCHANGED <<addr, subj, sig, body, ex>>

\* if subject_lower contains a spam pattern { push; spam_score += 0.15 }
SubjectCheck ==
    /\ mail.pc = "subject"
    /\ LET subject_lower == ToLower(mail.subject.original)
       IN  mail' = IF \/ Contains(subject_lower, <<"u", "r", "g", "e", "n", "t">>)
                      \/ Contains(subject_lower, <<"a", "c", "t", " ", "n", "o", "w">>)
                      \/ Contains(subject_lower, <<"l", "i", "m", "i", "t", "e", "d", " ", "t", "i", "m", "e">>)
                   THEN [mail EXCEPT !.pc = "rest",
                           !.spam_indicators = Push(@, SpamIndicator("urgency_language", WeightUrgency)),
                           !.spam_score = F32Add(@, WeightUrgency)]
                   ELSE [mail EXCEPT !.pc = "rest"]
    /\ UNCHANGED <<addr, subj, sig, body, ex>>

\* Urgency, category hints, the two flags, the sentiment, and the returned
\* EmailMetadata with spam_score.min(1.0).
ReturnMetadata ==
    /\ mail.pc = "rest"
    /\ LET subject_lower == ToLower(mail.subject.original)
           urgency == IF \/ Contains(subject_lower, <<"u", "r", "g", "e", "n", "t">>)
                         \/ Contains(subject_lower, <<"a", "s", "a", "p">>)
                         \/ Contains(subject_lower, <<"e", "m", "e", "r", "g", "e", "n", "c", "y">>)
                         \/ mail.headers.priority = Some("High")
                         \/ mail.headers.priority = Some("Highest")
                      THEN "High" ELSE "Normal"
           newsletter == IF mail.headers.list_unsubscribe # None
                         THEN <<CategoryHint("newsletter", "0.9", "Has List-Unsubscribe header")>>
                         ELSE <<>>
           automated == IF IsNoreply(mail.from)
                        THEN <<CategoryHint("automated", "0.8", "From noreply address")>>
                        ELSE <<>>
           lead == IF mail.phone_numbers # <<>> /\ mail.companies # <<>>
                   THEN <<CategoryHint("lead", "0.6", "Contains contact information")>>
                   ELSE <<>>
           text_lower == ToLower(mail.best_text)
           sentiment == IF \/ Contains(text_lower, <<"t", "h", "a", "n", "k">>)
                           \/ Contains(text_lower, <<"a", "p", "p", "r", "e", "c", "i", "a", "t", "e">>)
                           \/ Contains(text_lower, <<"g", "r", "e", "a", "t">>)
                           \/ Contains(text_lower, <<"e", "x", "c", "e", "l", "l", "e", "n", "t">>)
                        THEN "Positive"
                        ELSE IF \/ Contains(text_lower, <<"c", "o", "m", "p", "l", "a", "i", "n", "t">>)
                                \/ Contains(text_lower, <<"f", "r", "u", "s", "t", "r", "a", "t", "e", "d">>)
                                \/ Contains(text_lower, <<"d", "i", "s", "a", "p", "p", "o", "i", "n", "t", "e", "d">>)
                                \/ Contains(text_lower, <<"p", "r", "o", "b", "l", "e", "m">>)
                        THEN "Negative"
                        ELSE "Neutral"
       IN  mail' = [mail EXCEPT !.pc = "analyzed",
                      !.metadata = Some([
                          spam_score |-> F32Min(mail.spam_score, F32One),
                          spam_indicators |-> mail.spam_indicators,
                          urgency |-> urgency,
                          category_hints |-> newsletter \o automated \o lead,
                          is_automated |-> IsNoreply(mail.from) \/ mail.headers.mailer # None,
                          is_mailing_list |-> mail.headers.list_unsubscribe # None,
                          sentiment |-> sentiment])]
    /\ UNCHANGED <<addr, subj, sig, body, ex>>

NextSpam ==
    \/ NoreplyCheck
    \/ TrackingCheck
    \/ SubjectCheck
    \/ ReturnMetadata

SpecSpam == InitSpam /\ [][NextSpam]_vars

(***************************************************************************)
(* Claims about spam_score.                                                *)
(***************************************************************************)
\* The indicators the claim names, in the order of the checks.
ClaimedIndicators(m) ==
    (IF IsNoreply(m.from)
     THEN <<SpamIndicator("noreply_sender", WeightNoreply)>> ELSE <<>>)
    \o (IF Cardinality({i \in DOMAIN m.urls : m.urls[i].is_tracking}) > 3
        THEN <<SpamIndicator("excessive_tracking", WeightTracking)>> ELSE <<>>)
    \o (IF \E k \in {<<"u", "r", "g", "e", "n", "t">>, <<"a", "c", "t", " ", "n", "o", "w">>, <<"l", "i", "m", "i", "t", "e", "d", " ", "t", "i", "m", "e">>} :
              Contains(ToLower(m.subject.original), k)
        THEN <<SpamIndicator("urgency_language", WeightUrgency)>> ELSE <<>>)

RECURSIVE SumWeights(_, _)
\* The f32 sum of the weights of the indicators, added in order to acc.
SumWeights(indicators, acc) ==
    IF indicators = <<>> THEN acc
    ELSE SumWeights(Tail(indicators), F32Add(acc, Head(indicators).weight))

\* The f32 literal 0.45: the largest f32 that is not above 0.45.
F32Literal045 == F32(15099494, -25)

\* The f32 next above 0.45, printed 0.45000002.
F32Above045 == F32(15099495, -25)

\* The recorded indicators are those of the three conditions, each once, and
\* the returned score is the f32 sum of their weights, within [0, 1].
ScoreIsSumOfWeights ==
    LET md == mail.metadata.val
    IN  /\ md.spam_indicators = ClaimedIndicators(mail)
        /\ md.spam_score = SumWeights(md.spam_indicators, F32Zero)
        /\ F32Le(F32Zero, md.spam_score)
        /\ F32Le(md.spam_score, F32One)

\* C19 as stated: spam_score is the sum of the weights of the recorded
\* indicators (0.10 for a noreply sender, 0.20 for more than 3 tracking URLs,
\* 0.15 for an urgency word in the subject, each at most once), lies in
\* [0, 1] and is at most 0.45.
C19_ScoreAtMost045 ==
    mail.pc = "analyzed" =>
        /\ ScoreIsSumOfWeights
        /\ F32Le(mail.metadata.val.spam_score, F32Literal045)

\* C19 (amended): as above, but the largest score is the f32 sum
\* 0.1 + 0.2 + 0.15, which is the f32 next above 0.45.
C19_ScoreAtMostF32Sum ==
    mail.pc = "analyzed" =>
        /\ ScoreIsSumOfWeights
        /\ F32Le(mail.metadata.val.spam_score, F32Above045)

\* All three indicators are recorded and the score is the f32 next above 0.45.
C19_Witness ==
    /\ mail.pc = "analyzed"
    /\ Len(mail.metadata.val.spam_indicators) = 3
    /\ mail.metadata.val.spam_score = F32Above045

(***************************************************************************)
(* parser.rs: strip_html, the while loop one character at a time and then  *)
(* the entity decoding and the whitespace clean-up.                        *)
(***************************************************************************)
MaxStripPieces == 3

StripPieces ==
    {<<"<", "s", "c", "r", "i", "p", "t", ">">>, <<"<", "/", "s", "c", "r", "i", "p", "t", ">">>, <<"<", "S", "T", "Y", "L", "E", ">">>, <<"<", "/", "s", "t", "y", "l", "e", ">">>, <<"x">>, <<"<", "b">>,
     <<">">>, <<"U+0130">>, <<"<", "b", "r", ">">>, <<"&", "l", "t", ";">>}

StripInputs == {Concat(ps) : ps \in Strs(StripPieces, MaxStripPieces)}

InitStrip ==
    /\ body \in {[pc |-> "scan", chars |-> h, lower_chars |-> ToLower(h), i |-> 0,
                  st |-> StripInit, out |-> None] : h \in StripInputs}
    /\ addr = Idle /\ subj = Idle /\ sig = Idle /\ ex = Idle /\ mail = Idle

\* One iteration of while i < chars.len()
ScanStep ==
    /\ body.pc = "scan"
    /\ body.i < Len(body.chars)
    /\ body' = [body EXCEPT
                  !.st = StripStep(body.st, body.chars, body.lower_chars, body.i),
                  !.i = body.i + 1]
    /\ UNCHANGED <<addr, subj, sig, ex, mail>>

\* The loop has ended: result = result.replace(..) six times over.
DecodeStep ==
    /\ body.pc = "scan"
    /\ body.i >= Len(body.chars)
    /\ body' = [body EXCEPT !.pc = "decoded",
                            !.st.result = DecodeEntities(body.st.result)]
    /\ UNCHANGED <<addr, subj, sig, ex, mail>>

\* The lines of result are trimmed, the empty ones dropped, the rest joined.
StripFinish ==
    /\ body.pc = "decoded"
    /\ body' = [body EXCEPT
                  !.pc = "stripped",
                  !.out = Some(JoinLines(TrimmedNonEmptyLines(body.st.result)))]
    /\ UNCHANGED <<addr, subj, sig, ex, mail>>

NextStrip == ScanStep \/ DecodeStep \/ StripFinish

SpecStrip == InitStrip /\ [][NextStrip]_vars

(***************************************************************************)
(* Claims about the strip_html scan.  Offsets count from 0, as in the code.*)
(***************************************************************************)
\* The character at offset j stands after a '<' with no '>' in between.
InTagAt(chars, j) ==
    \E p \in 0..(j - 1) :
        /\ chars[p + 1] = "<"
        /\ \A q \in (p + 1)..(j - 1) : chars[q + 1] # ">"

\* The character at offset p is a '<' that opens a tag.
OpensTag(chars, p) == chars[p + 1] = "<" /\ ~InTagAt(chars, p)

\* The text from offset p on starts with pat, letter case apart.
StartsWithNoCase(chars, p, pat) ==
    /\ p + Len(pat) <= Len(chars)
    /\ \A k \in 1..Len(pat) : LowerChar(chars[p + k]) = pat[k]

\* Offset j stands after an opening that starts with open and before the next
\* opening that starts with close.
Suppressed(chars, j, open, close) ==
    \E p \in 0..(j - 1) :
        /\ OpensTag(chars, p) /\ StartsWithNoCase(chars, p, open)
        /\ \A q \in (p + 1)..(j - 1) :
              ~(OpensTag(chars, q) /\ StartsWithNoCase(chars, q, close))

\* What the claim says of the iteration at offset body.i.
ScanStepAsClaimed ==
    body.pc = "scan" /\ body'.pc = "scan" /\ body'.i = body.i + 1 =>
        LET i == body.i
            c == body.chars[i + 1]
            copied == body'.st.result = Append(body.st.result, c)
        IN  /\ copied <=> /\ ~body.st.in_tag /\ ~body.st.in_script /\ ~body.st.in_style
                          /\ c # "<"
            /\ copied => /\ c # "<"
                         /\ ~InTagAt(body.chars, i)
                         /\ ~Suppressed(body.chars, i, <<"<", "s", "c", "r", "i", "p", "t">>, <<"<", "/", "s", "c", "r", "i", "p", "t">>)
                         /\ ~Suppressed(body.chars, i, <<"<", "s", "t", "y", "l", "e">>, <<"<", "/", "s", "t", "y", "l", "e">>)
            /\ body.st.in_script /\ ~body'.st.in_script =>
                  OpensTag(body.chars, i) /\ StartsWithNoCase(body.chars, i, <<"<", "/", "s", "c", "r", "i", "p", "t">>)
            /\ body.st.in_style /\ ~body'.st.in_style =>
                  OpensTag(body.chars, i) /\ StartsWithNoCase(body.chars, i, <<"<", "/", "s", "t", "y", "l", "e">>)

\* C20: during the strip_html scan a character is copied to the output iff
\* in_tag, in_script and in_style are all false at it and it is not a '<'
\* that opens a tag; so no '<', no character between a '<' and the next '>',
\* and nothing between a <script / <style opening and the next </script /
\* </style seen outside a tag is emitted; in_script is cleared only by
\* </script and in_style only by </style.
C20_CopiedOnlyOutsideTagsAndBlocks == [][ScanStepAsClaimed]_vars

(***************************************************************************)
(* strip_html on texts that hold entities.                                 *)
(***************************************************************************)
MaxDecodePieces == 2

DecodePieces ==
    {<<"&", "n", "b", "s", "p", ";">>, <<"&", "a", "m", "p", ";">>, <<"&", "l", "t", ";">>, <<"&", "g", "t", ";">>, <<"&", "q", "u", "o", "t", ";">>, <<"&", "#", "3", "9", ";">>,
     <<"l", "t", ";">>, <<"a", "m", "p", ";">>, <<"&", "c", "o", "p", "y", ";">>, <<"&", "#", "6", "0", ";">>, <<"a">>, <<"<", "b", ">">>}

DecodeInputs == {Concat(ps) : ps \in Strs(DecodePieces, MaxDecodePieces)}

InitDecode ==
    /\ body \in {[pc |-> "scan", chars |-> h, lower_chars |-> ToLower(h), i |-> 0,
                  st |-> StripInit, out |-> None] : h \in DecodeInputs}
    /\ addr = Idle /\ subj = Idle /\ sig = Idle /\ ex = Idle /\ mail = Idle

SpecDecode == InitDecode /\ [][NextStrip]_vars

\* The six entities and the character each stands for.
EntityTable ==
    {<<<<"&", "n", "b", "s", "p", ";">>, " ">>, <<<<"&", "a", "m", "p", ";">>, "&">>, <<<<"&", "l", "t", ";">>, "<">>,
     <<<<"&", "g", "t", ";">>, ">">>, <<<<"&", "q", "u", "o", "t", ";">>, "\"">>, <<<<"&", "#", "3", "9", ";">>, "'">>}

RECURSIVE DecodedOnce(_)
\* s read from the left: an entity standing in s becomes its character, any
\* other character stays; what a replacement produced is not read again.
DecodedOnce(s) ==
    IF s = <<>> THEN <<>>
    ELSE LET here == {e \in EntityTable : StartsWith(s, e[1])}
         IN  IF here = {} THEN <<Head(s)>> \o DecodedOnce(Tail(s))
             ELSE LET e == CHOOSE x \in here : TRUE
                  IN  <<e[2]>> \o DecodedOnce(SliceFrom(s, Len(e[1])))

\* What the claim says of the decoding step.
DecodeStepAsClaimed ==
    body.pc = "scan" /\ body'.pc = "decoded" =>
        body'.st.result = DecodedOnce(body.st.result)

\* C21: after the scan strip_html replaces every occurrence of the six
\* entities in the scanned text by its character, once: text produced by a
\* replacement is not decoded again, and no other text is changed.
C21_EachEntityDecodedOnce == [][DecodeStepAsClaimed]_vars

(***************************************************************************)
(* Further claims about the reply loop of Subject::parse.                  *)
(***************************************************************************)
\* The text between `re[` and the first `]:` of s is one or more digits.
BracketHoldsDigits(s) ==
    LET end == Find(s, <<"]", ":">>)
    IN  end > 3 /\ \A k \in 4..end : IsDigit(s[k])

\* What the claim says of an iteration that sees `re[`: a counted prefix
\* `re[N]:` is removed and N added (where the sum fits a u32; the other case
\* is the matter of C26); without a `]:`, or with anything but digits before
\* it, the loop stops and nothing is consumed.
BracketStepAsClaimed ==
    subj.pc = "loop" /\ StartsWith(ToLower(subj.normalized), <<"r", "e", "[">>) =>
        LET s == subj.normalized
            end == Find(s, <<"]", ":">>)
        IN  IF end >= 0 /\ BracketHoldsDigits(s)
            THEN LET count == ParseU32(Slice(s, 3, end))
                 IN  (count # None /\ ~U32Add(subj.reply_depth, count.val).overflow) =>
                        /\ subj'.pc = "loop"
                        /\ subj'.reply_depth = U32Add(subj.reply_depth, count.val).val
                        /\ subj'.normalized = TrimStart(SliceFrom(s, end + 2))
            ELSE /\ subj'.pc = "forward"
                 /\ subj'.reply_depth = subj.reply_depth
                 /\ subj'.normalized = s

\* C22: in the reply loop a leading `re[` is consumed only as a counted prefix
\* `re[N]:`, which adds N to reply_depth; when the text holds no `]:`, or the
\* text between `re[` and the first `]:` is not an unsigned integer, the loop
\* stops and the text is left unconsumed.
C22_BracketConsumedOnlyWhenCounted == [][BracketStepAsClaimed]_vars

(***************************************************************************)
(* types.rs: EmailAddress::parse on a display name followed by a bracketed *)
(* address.                                                                *)
(***************************************************************************)
\* The values `name <a@b>`, over every name of the PersonName component.
NamedAddressInputs == {Some(n \o <<"<", "a", "@", "b", ">">>) : n \in NameInputs}

InitNamedAddress ==
    /\ addr \in {[pc |-> "start", input |-> i, out |-> None] : i \in NamedAddressInputs}
    /\ subj = Idle /\ sig = Idle /\ body = Idle /\ ex = Idle /\ mail = Idle

SpecNamedAddress == InitNamedAddress /\ [][NextAddress]_vars

\* The text before the first '<' of the trimmed input.
DisplayName(s) == Slice(Trim(s), 0, Find(Trim(s), <<"<">>))

\* C23: an address EmailAddress::parse returns has a name only when the
\* display name, whitespace trimmed and quotes stripped, is non-empty, and
\* the full of a name that is present is never empty.
C23_PresentNameIsNonEmpty ==
    (addr.pc = "parsed" /\ addr.out.tag = "Some") =>
        LET name == addr.out.val.name
        IN  /\ name = None <=> Unquoted(DisplayName(addr.input.val)) = <<>>
            /\ name # None => name.val.full # <<>>

(***************************************************************************)
(* Totality of EmailAddress::parse.                                        *)
(***************************************************************************)
\* C24: EmailAddress::parse returns Some or None for every input, also when
\* the first '>' stands before the first '<': it never aborts.
C24_AddressParseIsTotal ==
    addr.pc = "parsed" => addr.out.tag \in {"Some", "None"}

(***************************************************************************)
(* Termination of Subject::parse.  The function is straight-line code and  *)
(* a loop, run by one thread: a step that can be taken is taken.           *)
(***************************************************************************)
SpecSubjectFair == SpecSubject /\ WF_vars(NextSubject)

\* An iteration that does not leave the loop removes three characters or more.
IterationShortens ==
    subj.pc = "loop" /\ subj'.pc = "loop" =>
        Len(subj'.normalized) + 3 <= Len(subj.normalized)

\* The forward check is entered from the loop only and is left at once.
ForwardCheckRunsOnce ==
    /\ subj'.pc = "forward" => subj.pc = "loop"
    /\ subj.pc = "forward" => subj'.pc = "done"

\* C25: the reply loop terminates for every input: every iteration that goes
\* on removes at least 3 characters of the working string, and the forward
\* check after the loop runs exactly once, after which the parse is done.
C25_LoopTerminatesForwardRunsOnce ==
    /\ [][IterationShortens]_vars
    /\ [][ForwardCheckRunsOnce]_vars
    /\ <>(subj.pc = "done")

(***************************************************************************)
(* Accumulation of reply_depth.                                            *)
(***************************************************************************)
\* C26: reply_depth never wraps and Subject::parse never aborts on the
\* accumulation: at every point of the loop reply_depth is the true sum of the
\* prefixes counted so far, within the 32-bit unsigned range.
C26_DepthNeverWrapsNorAborts ==
    /\ [](subj.pc # "panic")
    /\ [][subj.pc = "loop" /\ subj'.pc = "loop" =>
            LET s == subj.normalized
                count == IF StartsWith(ToLower(s), <<"r", "e", ":">>) THEN U32(1)
                         ELSE LET n == ParseU32(Slice(s, 3, Find(s, <<"]", ":">>)))
                              IN  IF n = None THEN U32(0) ELSE n.val
            IN  /\ subj'.reply_depth = WideAdd(subj.reply_depth, count)
                /\ subj'.reply_depth[1] < Limb]_vars

(***************************************************************************)
(* The third delimiter of separate_signature.                              *)
(***************************************************************************)
\* C27: "---\n" is never the delimiter separate_signature uses: a text that
\* holds it holds "--\n" too and is split at the first "--\n", which leaves a
\* '-' at the end of the content when that "--\n" ends the first "---\n"; and
\* every delimiter that occurs gives a non-empty signature, so the split is
\* always at the first delimiter of the list that occurs.
C27_TripleDashNeverUsed ==
    sig.pc = "done" =>
        LET text == sig.text
            two == Find(text, <<"-", "-", "\n">>)
            three == Find(text, <<"-", "-", "-", "\n">>)
        IN  /\ \A k \in Occurring(text) :
                  Trim(SliceFrom(text, Find(text, Delimiters[k]))) # <<>>
            /\ Occurring(text) # {} =>
                  /\ sig.out.signature # None
                  /\ sig.out.content_without_signature =
                        Trim(Slice(text, 0, Find(text, Delimiters[Chosen(text)])))
                  /\ Chosen(text) # 3
            /\ three >= 0 =>
                  /\ two >= 0 /\ two <= three + 1
                  /\ sig.out.content_without_signature = Trim(Slice(text, 0, two))
                  /\ sig.out.signature = Some(Trim(SliceFrom(text, two)))
                  /\ two = three + 1 =>
                        LET content == sig.out.content_without_signature
                        IN  content # <<>> /\ content[Len(content)] = "-"

\* A text whose first "--\n" ends its first "---\n" was split: the content
\* ends with a '-' and text stands before the dashes.
C27_Witness ==
    /\ sig.pc = "done"
    /\ Find(sig.text, <<"-", "-", "-", "\n">>) > 0
    /\ Find(sig.text, <<"-", "-", "\n">>) = Find(sig.text, <<"-", "-", "-", "\n">>) + 1
    /\ sig.out.signature # None
    /\ Len(sig.out.content_without_signature) > 1

====
